---- MODULE Spec2Model ----
(***************************************************************************)
(* A model of the SAHAYAK analysis-to-report pipeline                      *)
(* (src/develop/sahayak_analytics.py): SahayakAnalytics.__init__,          *)
(* analyze_student_with_ai, create_enhanced_fallback_analysis and          *)
(* generate_complete_report, with the reasoning service as environment,    *)
(* followed by the answer of the web handler (src/develop/main.py); and,   *)
(* each on its own inputs, generate_class_strategic_insights with          *)
(* generate_multi_grade_recommendations, and the panels and document       *)
(* subsections drawn for one analysis; and two concurrent requests to      *)
(* /generate-custom-report sharing the upload folder.                      *)
(*                                                                         *)
(* JSON values are records tagged by "type"; a dict whose keys are the     *)
(* Assessment sections is [type |-> "object", secs |-> <function>].        *)
(* A text is a sequence of tokens: the fence ```, the word json,           *)
(* whitespace, other characters, and the serialization of a JSON value.    *)
(* A string built by interpolation is the tuple of its parts.              *)
(***************************************************************************)
EXTENDS Integers, Sequences, FiniteSets, TLC

\* ------------------------------------------------------------- bounds
\* longest input batch explored
MaxStudents == 2
\* last value of the wall clock (datetime.now) explored
MaxClock == 1

\* ------------------------------------------------------------- records
RequiredFields == {"name", "grade", "subject", "remark", "exam_date"}

\* a dict without key f
Drop(r, f) == [k \in (DOMAIN r) \ {f} |-> r[k]]

HasKey(d, k) == k \in DOMAIN d

ValidRecords ==
  { [name |-> "A", grade |-> "Class 4", subject |-> "Mathematics",
     remark |-> "rm1", exam_date |-> "d1"],
    [name |-> "A", grade |-> "Class 4", subject |-> "English",
     remark |-> "rm2", exam_date |-> "d2"],
    [name |-> "B", grade |-> "Class 5", subject |-> "Mathematics",
     remark |-> "rm1", exam_date |-> "d1"] }

BaseRecord == [name |-> "B", grade |-> "Class 5", subject |-> "Mathematics",
               remark |-> "rm1", exam_date |-> "d1"]

\* records that lack one required field
MalformedRecords == { Drop(BaseRecord, f) : f \in RequiredFields }

Records == ValidRecords \cup MalformedRecords

IsValidRecord(r) == RequiredFields \subseteq DOMAIN r

SeqsUpTo(S, n) == UNION { [1..k -> S] : k \in 0..n }

\* what json.load(f) of the uploaded file can yield: a list of records, or
\* a value that is not a list (a dict, whose iteration yields its keys, or a
\* number, which is not iterable)
Inputs ==
  { [type |-> "array", items |-> s] : s \in SeqsUpTo(Records, MaxStudents) }
  \cup { [type |-> "object", items |-> << [key |-> "students"] >>],
         [type |-> "number", items |-> <<>>] }

\* for ... in enumerate(self.student_data, 1): a list and a dict iterate,
\* a number raises TypeError
Iterable(sd) == sd.type \in {"array", "object"}

\* ------------------------------------------------------------- fallback
\* the dict literal of create_enhanced_fallback_analysis, with the two values
\* it interpolates: student_data['grade'] and student_data['name']
FallbackTemplate(grade, name) ==
  [type |-> "object",
   secs |->
    [student_profile |->
       [current_grade_level |-> grade,
        functional_level |-> "Grade level assessment needed",
        learning_pace |-> "Average",
        attention_span |-> "Medium",
        peer_interaction |-> "Neutral",
        independence_level |-> "Medium"],
     academic_performance |->
       [subject_mastery |-> 6,
        comprehension_level |-> 6,
        application_skills |-> 5,
        problem_solving |-> 6,
        retention_rate |-> 6],
     multi_grade_considerations |->
       [can_help_younger_students |-> FALSE,
        needs_advanced_challenges |-> FALSE,
        requires_individualized_attention |-> TRUE,
        works_well_in_mixed_groups |-> TRUE],
     detailed_strengths |->
       << [strength |-> "Shows potential",
           evidence |-> "Teacher observation",
           classroom_application |-> "Can participate in group activities",
           teaching_strategy |-> "Provide encouragement and support"] >>,
     detailed_challenges |->
       << [challenge |-> "Needs assessment",
           root_cause |-> "Requires detailed evaluation",
           severity |-> "Medium",
           impact_on_multi_grade |-> "May need individualized attention",
           immediate_intervention |-> "Closer observation needed"] >>,
     sahayak_interventions |->
       << [intervention |-> "Individual assessment",
           specific_implementation |->
             "One-on-one evaluation with specific activities",
           daily_schedule |-> "During individual work time",
           materials_needed |-> "Basic classroom materials",
           zero_cost_adaptation |-> "Use existing materials",
           expected_outcome |-> "Better understanding of needs"] >>,
     personalized_summary |->
       [immediate_actions_for_tomorrow |->
          << <<"Observe ", name, " more closely during lessons">>,
             <<"Note specific areas of strength and challenge">>,
             <<"Plan targeted interventions based on observations">> >>,
        this_week_implementation |->
          << "Monday: Detailed observation",
             "Tuesday: Try different teaching approaches",
             "Wednesday: Note what works best",
             "Thursday: Implement successful strategies",
             "Friday: Assess progress" >>,
        success_timeline_with_numbers |->
          "Week 2: Better understanding of student needs. Week 4: Targeted interventions showing results. Week 6: Consistent improvement visible"]]]

\* a fallback that reads a field other than grade
create_enhanced_fallback_analysis_subject(sd) ==
  FallbackTemplate(sd.subject, sd.name)

create_enhanced_fallback_analysis(sd) == FallbackTemplate(sd.grade, sd.name)

\* ------------------------------------------------------------- responses
\* an analysis the service may return: conforming to the Assessment schema
AiAnalysis ==
  [type |-> "object",
   secs |->
    [student_profile |->
       [current_grade_level |-> "Class 4",
        functional_level |-> "Grade 3 equivalent",
        learning_pace |-> "Fast",
        attention_span |-> "Short",
        peer_interaction |-> "Helpful",
        independence_level |-> "High"],
     academic_performance |->
       [subject_mastery |-> 8,
        comprehension_level |-> 8,
        application_skills |-> 7,
        problem_solving |-> 8,
        retention_rate |-> 8],
     multi_grade_considerations |->
       [can_help_younger_students |-> TRUE,
        needs_advanced_challenges |-> TRUE,
        requires_individualized_attention |-> FALSE,
        works_well_in_mixed_groups |-> TRUE],
     detailed_strengths |-> <<>>,
     detailed_challenges |->
       << [challenge |-> "Word problem comprehension",
           root_cause |-> "Reading comprehension",
           severity |-> "High",
           impact_on_multi_grade |-> "Combined activities",
           immediate_intervention |-> "Visual templates"] >>,
     sahayak_interventions |-> <<>>,
     personalized_summary |->
       [immediate_actions_for_tomorrow |-> << <<"TOMORROW: Move seat">> >>,
        this_week_implementation |-> << "MONDAY: Start daily sessions" >>,
        success_timeline_with_numbers |-> "Week 2: 50% improvement"]]]

\* a dict with an ill-shaped section: a score outside 1..10
BadScoreAnalysis ==
  [type |-> "object",
   secs |-> [academic_performance |->
               [subject_mastery |-> 11,
                comprehension_level |-> 6,
                application_skills |-> 5,
                problem_solving |-> 6,
                retention_rate |-> 7]]]

\* a dict with an ill-shaped section: a severity outside Low/Medium/High
BadSeverityAnalysis ==
  [type |-> "object",
   secs |-> [detailed_challenges |->
               << [challenge |-> "c", root_cause |-> "r",
                   severity |-> "Critical",
                   impact_on_multi_grade |-> "i",
                   immediate_intervention |-> "v"] >>]]

\* tokens of a response text
Fence == [t |-> "fence"]
JsonWord == [t |-> "json"]
Ws == [t |-> "ws"]
Junk == [t |-> "junk"]
Quote == [t |-> "quote"]
Val(v) == [t |-> "val", v |-> v]

EmptyObject == [type |-> "object", secs |-> <<>>]
JNull == [type |-> "null"]
JNumber(n) == [type |-> "number", num |-> n]
JArray(s) == [type |-> "array", items |-> s]
\* a JSON string, by the characters between its quotes
JString(chars) == [type |-> "string", chars |-> chars]

\* JSON values whose serialization the service may send
JsonValues ==
  { AiAnalysis, BadScoreAnalysis, BadSeverityAnalysis, EmptyObject, JNull,
    JNumber(5), JArray(<<1>>), JString(<<Fence>>) }

\* json.dumps-like serialization of a value: a string is its characters
\* between quotes, any other value is one value token
Serialize(v) ==
  IF v.type = "string" THEN <<Quote>> \o v.chars \o <<Quote>>
  ELSE << Val(v) >>

\* response_text.startswith('```json')
StartsWithJsonFence(text) ==
  Len(text) >= 2 /\ text[1] = Fence /\ text[2] = JsonWord

RECURSIVE ReplaceJsonFence(_)
\* response_text.replace('```json', '')
ReplaceJsonFence(text) ==
  IF text = <<>> THEN <<>>
  ELSE IF StartsWithJsonFence(text)
       THEN ReplaceJsonFence(SubSeq(text, 3, Len(text)))
       ELSE <<Head(text)>> \o ReplaceJsonFence(Tail(text))

\* .replace('```', '')
ReplaceFence(text) == SelectSeq(text, LAMBDA x : x # Fence)

RECURSIVE LStrip(_)
LStrip(text) ==
  IF text # <<>> /\ Head(text) = Ws THEN LStrip(Tail(text)) ELSE text

RECURSIVE RStrip(_)
RStrip(text) ==
  IF text # <<>> /\ text[Len(text)] = Ws
  THEN RStrip(SubSeq(text, 1, Len(text) - 1))
  ELSE text

\* .strip()
Strip(text) == RStrip(LStrip(text))

\* the text is one JSON string: a quote, characters other than a quote, a
\* quote
IsStringLiteral(core) ==
  /\ Len(core) >= 2
  /\ core[1] = Quote
  /\ core[Len(core)] = Quote
  /\ \A k \in 2..(Len(core) - 1) : core[k] # Quote

\* json.loads: surrounding whitespace is skipped, the rest must be exactly
\* one value; anything else raises JSONDecodeError
json_loads(text) ==
  LET core == Strip(text)
  IN IF Len(core) = 1 /\ core[1].t = "val"
     THEN [ok |-> TRUE, v |-> core[1].v]
     ELSE IF IsStringLiteral(core)
     THEN [ok |-> TRUE, v |-> JString(SubSeq(core, 2, Len(core) - 1))]
     ELSE [ok |-> FALSE, v |-> JNull]

\* what self.model.generate_content(prompt, ...) can do: raise (a permanent
\* error, or RetryError once the retry deadline is exceeded), return None,
\* return an object without text, or return an object with a text
Raises(exc) == [kind |-> "raise", exc |-> exc, text |-> <<>>]
NoResponse == [kind |-> "none", exc |-> "", text |-> <<>>]
NoText == [kind |-> "notext", exc |-> "", text |-> <<>>]
TextResponse(text) == [kind |-> "text", exc |-> "", text |-> text]

\* the same data fenced inside a block tagged json
Fenced(text) == <<Fence, JsonWord, Ws>> \o text \o <<Ws, Fence>>

ResponseTexts ==
  { Serialize(v) : v \in JsonValues }
  \cup { Fenced(Serialize(v)) : v \in JsonValues }
  \cup { <<>>, <<Junk>>, <<Fence, JsonWord, Junk, Fence>>,
         <<Fence, Ws>> \o Serialize(AiAnalysis) \o <<Ws, Fence>>,
         <<Junk>> \o Fenced(Serialize(AiAnalysis)),
         <<Fence, JsonWord, Ws>> \o Serialize(AiAnalysis) }

Responses ==
  { Raises("permanent"), Raises("RetryError"), NoResponse, NoText }
  \cup { TextResponse(t) : t \in ResponseTexts }

\* ------------------------------------------------------------- analysis
PromptFields == {"name", "grade", "subject", "remark"}

\* _build_prompt: the brief embeds name, grade, subject and remark
\* (a missing key raises KeyError)
_build_prompt(sd) == [k \in PromptFields |-> sd[k]]

\* lines 70-71: the fence markers are removed when the text starts with one
CleanResponseText(text) ==
  IF StartsWithJsonFence(text)
  THEN Strip(ReplaceFence(ReplaceJsonFence(text)))
  ELSE text

\* an else branch (line 74) that returns None instead of the fallback
analyze_student_with_ai_none(sd, response) ==
  IF response.kind = "raise"
  THEN create_enhanced_fallback_analysis(sd)
  ELSE IF response.kind \in {"none", "notext"}
  THEN JNull
  ELSE LET parsed == json_loads(CleanResponseText(response.text))
       IN IF parsed.ok THEN parsed.v
          ELSE create_enhanced_fallback_analysis(sd)

\* the value the try block of analyze_student_with_ai returns for a
\* response, each except branch and the else branch giving the fallback
analyze_student_with_ai(sd, response) ==
  IF response.kind = "raise"
  THEN create_enhanced_fallback_analysis(sd)
  ELSE IF response.kind \in {"none", "notext"}
  THEN create_enhanced_fallback_analysis(sd)
  ELSE LET parsed == json_loads(CleanResponseText(response.text))
       IN IF parsed.ok THEN parsed.v
          ELSE create_enhanced_fallback_analysis(sd)

\* Python truth value of a JSON value (if analysis:)
Truthy(v) ==
  CASE v.type = "object" -> DOMAIN v.secs # {}
    [] v.type = "array" -> v.items # <<>>
    [] v.type = "number" -> v.num # 0
    [] v.type = "string" -> v.chars # <<>>
    [] OTHER -> FALSE

\* ------------------------------------------------------------- state
VARIABLES
  student_data,       \* self.student_data
  temp_dir,           \* the files present in self.temp_dir
  now,                \* the wall clock read by datetime.datetime.now()
  pc,                 \* position in generate_complete_report
  idx,                \* i of enumerate(self.student_data, 1)
  reports,            \* reports
  inflight,           \* indices whose generate_content call has not returned
  issued,             \* the calls issued so far, in order
  last,               \* the analyze_student_with_ai call that has just
                      \* returned: its record, response and value
  chart_idx,          \* position of the loop over reports (step 2)
  individual_charts,  \* individual_charts
  class_chart,        \* class_chart
  pdf_filename,       \* pdf_filename
  json_filename,      \* json_filename
  archive,            \* what json.dump wrote
  result,             \* what generate_complete_report returned
  pdf_reports,        \* reports as passed to
                      \* generate_comprehensive_pdf_report
  http,               \* what the web handler answered
  chart_content,      \* what each student chart file on disk shows
  story               \* the per-student sections of the document

pipeline_vars ==
  << student_data, temp_dir, now, pc, idx, reports, inflight, issued, last,
     chart_idx, individual_charts, class_chart, pdf_filename, json_filename,
     archive, result, pdf_reports, http, chart_content, story >>

\* one generate_content call under the Retry object
VARIABLES
  r_pc,        \* "attempting", "sleeping", "returned", "raised", "deadline"
  r_clock,     \* time since the first attempt started
  r_delay,     \* the delay before the next attempt
  r_starts,    \* when each attempt started
  r_outcomes,  \* how each attempt ended: "ok", "transient", "permanent"
  r_sleeps     \* the delays slept between attempts

retry_vars == << r_pc, r_clock, r_delay, r_starts, r_outcomes, r_sleeps >>

\* two records and the fallback assessments computed for them
VARIABLES fb_a, fb_b, fb_out_a, fb_out_b

fb_vars == << fb_a, fb_b, fb_out_a, fb_out_b >>

\* one run of generate_class_strategic_insights followed by
\* generate_multi_grade_recommendations
VARIABLES
  ins_reports,                    \* reports
  ins_pc,                         \* "scan", "emit", "recommend", "done"
  ins_pos,                        \* position of the loop of line 715
  grade_distribution,             \* dicts keep insertion order: a dict is
  subject_specific_issues,        \* the sequence of its [key, vals] items
  attention_span_data,
  high_performers,
  need_urgent_support,
  peer_helpers,
  individual_attention_students,
  insights,                       \* what generate_class_strategic_insights
                                  \* returned
  recommendations                 \* what generate_multi_grade_recommendations
                                  \* returned

ins_vars ==
  << ins_reports, ins_pc, ins_pos, grade_distribution,
     subject_specific_issues, attention_span_data, high_performers,
     need_urgent_support, peer_helpers, individual_attention_students,
     insights, recommendations >>

\* one analysis, the panels create_student_visualization draws for it and
\* the subsections generate_comprehensive_pdf_report writes for it
VARIABLES rn_analysis, rn_panels, rn_sections

rn_vars == << rn_analysis, rn_panels, rn_sections >>

\* requests to /generate-custom-report served at the same time
VARIABLES
  upload_folder,  \* the files of app.config['UPLOAD_FOLDER']: name, content
  made_dirs,      \* how many directories tempfile.mkdtemp() has made
  disk,           \* the artifact files in the directories mkdtemp made
  rq              \* per request: its position in generate_custom_report,
                  \* the file it carries and its locals

up_vars == << upload_folder, made_dirs, disk, rq >>

vars == << pipeline_vars, retry_vars, fb_vars, ins_vars, rn_vars, up_vars >>

NoFile == [kind |-> "none", id |-> 0, name |-> "", stamp |-> -1]
\* no archive file has been written
NoArchive == [type |-> "null"]
NotReturned == [returned |-> FALSE, files |-> <<>>]
NoAnswer == [status |-> "none", entries |-> <<>>, flash |-> ""]
Returned(files) == [returned |-> TRUE, files |-> files]
NoCall == [idx |-> 0, response |-> NoResponse, analysis |-> JNull]

PipelineInit ==
  /\ student_data \in Inputs
  /\ temp_dir = {}
  /\ now = 0
  /\ pc = "loop"
  /\ idx = 1
  /\ reports = <<>>
  /\ inflight = {}
  /\ issued = <<>>
  /\ last = NoCall
  /\ chart_idx = 1
  /\ individual_charts = <<>>
  /\ class_chart = NoFile
  /\ pdf_filename = NoFile
  /\ json_filename = NoFile
  /\ archive = NoArchive
  /\ result = NotReturned
  /\ pdf_reports = <<>>
  /\ http = NoAnswer
  /\ chart_content = {}
  /\ story = <<>>

\* ------------------------------------------------------------- step 1
\* the record the loop is at
Current == student_data.items[idx]

\* the next position of enumerate
NextIdx(i) == i + 1

\* a loop that stops one record early
LoopDone_early(i, n) == i >= n

\* the for loop of step 1 is over

LoopDone(i, n) == i > n

\* a call that is not awaited: it stays pending when the loop moves on
CallReturned_pending(fl, i) == fl

\* generate_content is synchronous: once it has returned (or raised) the
\* call of record i is no longer pending

CallReturned(fl, i) == fl \ {i}

\* line 452 reads name and grade, _build_prompt reads PromptFields
CanBuildPrompt(sd) == PromptFields \subseteq DOMAIN sd

\* except Exception: return []
Abort ==
  /\ pc' = "done"
  /\ result' = Returned(<<>>)

\* the report dict of lines 456-465
MakeReport(i, sd, analysis, t) ==
  [student_id |-> i,
   student_name |-> sd.name,
   grade |-> sd.grade,
   subject |-> sd.subject,
   exam_date |-> sd.exam_date,
   original_remark |-> sd.remark,
   analysis_date |-> t,
   analysis |-> analysis]

\* time passes
Tick ==
  /\ pc \notin {"done", "responded"}
  /\ now < MaxClock
  /\ now' = now + 1
  /\ UNCHANGED << student_data, temp_dir, pc, idx, reports, inflight, issued,
                  last, chart_idx, individual_charts, class_chart,
                  pdf_filename, json_filename, archive, result >>
  /\ UNCHANGED << pdf_reports, http, chart_content, story >>
  /\ UNCHANGED << retry_vars, fb_vars, ins_vars, rn_vars, up_vars >>

\* enumerate() of a value that is not iterable raises TypeError
IterRaises ==
  /\ pc = "loop"
  /\ last' = NoCall
  /\ ~Iterable(student_data)
  /\ Abort
  /\ UNCHANGED << student_data, temp_dir, now, idx, reports, inflight, issued,
                  chart_idx, individual_charts, class_chart,
                  pdf_filename, json_filename, archive >>
  /\ UNCHANGED << pdf_reports, http, chart_content, story >>
  /\ UNCHANGED << retry_vars, fb_vars, ins_vars, rn_vars, up_vars >>

\* lines 452-454 on a record without one of name, grade, subject, remark
\* (or on an element that is not a dict): KeyError or TypeError, raised
\* before the try block of analyze_student_with_ai is entered
RecordRaises ==
  /\ pc = "loop"
  /\ last' = NoCall
  /\ Iterable(student_data)
  /\ ~LoopDone(idx, Len(student_data.items))
  /\ ~CanBuildPrompt(Current)
  /\ Abort
  /\ UNCHANGED << student_data, temp_dir, now, idx, reports, inflight, issued,
                  chart_idx, individual_charts, class_chart,
                  pdf_filename, json_filename, archive >>
  /\ UNCHANGED << pdf_reports, http, chart_content, story >>
  /\ UNCHANGED << retry_vars, fb_vars, ins_vars, rn_vars, up_vars >>

\* lines 452-454 and 52-65: the prompt is built and the call is issued
IssueCall ==
  /\ pc = "loop"
  /\ last' = NoCall
  /\ Iterable(student_data)
  /\ ~LoopDone(idx, Len(student_data.items))
  /\ CanBuildPrompt(Current)
  /\ inflight' = inflight \cup {idx}
  /\ issued' = Append(issued, [idx |-> idx, prompt |-> _build_prompt(Current)])
  /\ pc' = "call"
  /\ UNCHANGED << student_data, temp_dir, now, idx, reports, chart_idx,
                  individual_charts, class_chart, pdf_filename,
                  json_filename, archive, result >>
  /\ UNCHANGED << pdf_reports, http, chart_content, story >>
  /\ UNCHANGED << retry_vars, fb_vars, ins_vars, rn_vars, up_vars >>

\* lines 65-84 and 455-467: the call ends, analyze_student_with_ai returns,
\* and the report is appended when the analysis is truthy
CallReturns ==
  /\ pc = "call"
  /\ \E response \in Responses :
       LET analysis == analyze_student_with_ai(Current, response)
       IN /\ inflight' = CallReturned(inflight, idx)
          /\ last' = [idx |-> idx, response |-> response,
                      analysis |-> analysis]
          /\ IF Truthy(analysis)
             THEN IF HasKey(Current, "exam_date")
                  THEN /\ reports' =
                            Append(reports,
                                   MakeReport(idx, Current, analysis, now))
                       /\ idx' = NextIdx(idx)
                       /\ pc' = "loop"
                       /\ UNCHANGED result
                  ELSE /\ Abort
                       /\ UNCHANGED << reports, idx >>
             ELSE /\ idx' = NextIdx(idx)
                  /\ pc' = "loop"
                  /\ UNCHANGED << reports, result >>
  /\ UNCHANGED << student_data, temp_dir, now, issued, chart_idx,
                  individual_charts, class_chart, pdf_filename,
                  json_filename, archive >>
  /\ UNCHANGED << pdf_reports, http, chart_content, story >>
  /\ UNCHANGED << retry_vars, fb_vars, ins_vars, rn_vars, up_vars >>

\* lines 469-471
NoReports ==
  /\ pc = "loop"
  /\ last' = NoCall
  /\ Iterable(student_data)
  /\ LoopDone(idx, Len(student_data.items))
  /\ reports = <<>>
  /\ Abort
  /\ UNCHANGED << student_data, temp_dir, now, idx, reports, inflight, issued,
                  chart_idx, individual_charts, class_chart,
                  pdf_filename, json_filename, archive >>
  /\ UNCHANGED << pdf_reports, http, chart_content, story >>
  /\ UNCHANGED << retry_vars, fb_vars, ins_vars, rn_vars, up_vars >>

\* line 473: on to step 2
StartCharts ==
  /\ pc = "loop"
  /\ last' = NoCall
  /\ Iterable(student_data)
  /\ LoopDone(idx, Len(student_data.items))
  /\ reports # <<>>
  /\ pc' = "charts"
  /\ UNCHANGED << student_data, temp_dir, now, idx, reports, inflight, issued,
                  chart_idx, individual_charts, class_chart,
                  pdf_filename, json_filename, archive, result >>
  /\ UNCHANGED << pdf_reports, http, chart_content, story >>
  /\ UNCHANGED << retry_vars, fb_vars, ins_vars, rn_vars, up_vars >>

\* ------------------------------------------------------------- steps 2-5
\* create_student_visualization reads analysis as a dict: 'x' in analysis
\* and analysis.get raise on a number or a list
RendersAsDict(analysis) == analysis.type = "object"

\* a chart file named after the student alone
StudentChartFile_byname(report) ==
  [kind |-> "student_chart", id |-> 0,
   name |-> report.student_name, stamp |-> -1]

\* line 312: sahayak_student_{student_id}_{name}.png

StudentChartFile(report) ==
  [kind |-> "student_chart", id |-> report.student_id,
   name |-> report.student_name, stamp |-> -1]

\* line 438: sahayak_class_analytics.png
ClassChartFile == [kind |-> "class_chart", id |-> 0, name |-> "", stamp |-> -1]

\* line 524: SAHAYAK_Complete_Report_{timestamp}.pdf
PdfFile(t) == [kind |-> "pdf", id |-> 0, name |-> "", stamp |-> t]

\* line 497: sahayak_analysis_data_{timestamp}.json
JsonFile(t) == [kind |-> "json", id |-> 0, name |-> "", stamp |-> t]

\* plt.savefig(filename) (line 313): the file named f now shows the chart
\* of report; a file of that name written before is replaced
savefig(content, f, report) ==
  { c \in content : c.file # f } \cup { [file |-> f, shows |-> report] }

\* lines 479-482: one chart per report; an exception (the analysis is not a
\* dict, or the plotting library fails) ends the run in the except branch
CreateStudentVisualization ==
  /\ pc = "charts"
  /\ \E ok \in BOOLEAN :
       LET report == reports[chart_idx]
       IN IF ok /\ RendersAsDict(report.analysis)
          THEN /\ individual_charts' =
                    Append(individual_charts, StudentChartFile(report))
               /\ temp_dir' = temp_dir \cup {StudentChartFile(report)}
               /\ chart_content' =
                    savefig(chart_content, StudentChartFile(report), report)
               /\ chart_idx' = chart_idx + 1
               /\ pc' = IF chart_idx = Len(reports) THEN "dashboard"
                        ELSE "charts"
               /\ UNCHANGED result
          ELSE /\ Abort
               /\ UNCHANGED << individual_charts, temp_dir, chart_idx,
                               chart_content >>
  /\ UNCHANGED << student_data, now, idx, reports, inflight, issued, last,
                  class_chart, pdf_filename, json_filename, archive >>
  /\ UNCHANGED << pdf_reports, http, story >>
  /\ UNCHANGED << retry_vars, fb_vars, ins_vars, rn_vars, up_vars >>

\* line 486
CreateClassDashboard ==
  /\ pc = "dashboard"
  /\ \E ok \in BOOLEAN :
       IF ok
       THEN /\ class_chart' = ClassChartFile
            /\ temp_dir' = temp_dir \cup {ClassChartFile}
            /\ pc' = "pdf"
            /\ UNCHANGED result
       ELSE /\ Abort
            /\ UNCHANGED << class_chart, temp_dir >>
  /\ UNCHANGED << student_data, now, idx, reports, inflight, issued, last,
                  chart_idx, individual_charts, pdf_filename, json_filename,
                  archive >>
  /\ UNCHANGED << pdf_reports, http, chart_content, story >>
  /\ UNCHANGED << retry_vars, fb_vars, ins_vars, rn_vars, up_vars >>

\* no Image in the section
NoImage == [student_id |-> 0]

\* a document that embeds the charts in reverse
SectionChart_reversed(charts, i) == charts[Len(charts) + 1 - i]

\* individual_charts[i] (line 644), i counted from 1

SectionChart(charts, i) == charts[i]

\* Image(path): the picture the file at path holds
Image(content, path) == (CHOOSE c \in content : c.file = path).shows

\* lines 629-645: for i, report in enumerate(reports): the header of the
\* section and, when the i-th chart file exists, its picture
StudentSections(rs, charts, dir, content) ==
  [i \in 1..Len(rs) |->
     [student_name |-> rs[i].student_name,
      grade |-> rs[i].grade,
      subject |-> rs[i].subject,
      image |-> IF i <= Len(charts) /\ SectionChart(charts, i) \in dir
                THEN Image(content, SectionChart(charts, i))
                ELSE NoImage]]

\* line 491
GeneratePdf ==
  /\ pc = "pdf"
  /\ \E ok \in BOOLEAN :
       IF ok
       THEN /\ pdf_reports' = reports
            /\ story' = StudentSections(reports, individual_charts, temp_dir,
                                        chart_content)
            /\ pdf_filename' = PdfFile(now)
            /\ temp_dir' = temp_dir \cup {PdfFile(now)}
            /\ pc' = "archive"
            /\ UNCHANGED result
       ELSE /\ pdf_reports' = reports
            /\ Abort
            /\ UNCHANGED << pdf_filename, temp_dir, story >>
  /\ UNCHANGED << student_data, now, idx, reports, inflight, issued, last,
                  chart_idx, individual_charts, class_chart, json_filename,
                  archive >>
  /\ UNCHANGED << http, chart_content >>
  /\ UNCHANGED << retry_vars, fb_vars, ins_vars, rn_vars, up_vars >>

\* a Python str or int as json.dump writes it
JText(s) == [type |-> "string", text |-> s]

\* json.dump of one report dict: student_id is an int, the analysis is the
\* value json.loads returned (or the fallback dict), the other fields are
\* strings (analysis_date is the isoformat string of line 463)
ReportToJson(r) ==
  [type |-> "object",
   secs |-> [k \in DOMAIN r |->
               IF k = "student_id" THEN JNumber(r[k])
               ELSE IF k = "analysis" THEN r[k]
               ELSE JText(r[k])]]

\* an archive that loses the first report
ArchivedStudents_tail(rs) == Tail(rs)

\* "students": reports (line 508)

ArchivedStudents(rs) == rs

\* lines 500-509: the object json.dump writes at time t
json_dump(rs, t) ==
  [type |-> "object",
   secs |->
     [metadata |->
        [type |-> "object",
         secs |-> [system |-> JText("SAHAYAK - AI Teaching Assistant"),
                   version |->
                     JText("1.0 - Multi-Grade Classroom Analytics"),
                   total_students |-> JNumber(Len(rs)),
                   analysis_date |-> JText(t),
                   designed_for |->
                     JText("Under-resourced multi-grade classrooms in India")]],
      students |->
        JArray([k \in 1..Len(ArchivedStudents(rs)) |->
                  ReportToJson(ArchivedStudents(rs)[k])])]]

\* lines 496-515: the archive is written and the existing files returned
SaveArchive ==
  /\ pc = "archive"
  /\ \E ok \in BOOLEAN :
       IF ok
       THEN /\ json_filename' = JsonFile(now)
            /\ archive' = json_dump(reports, now)
            /\ temp_dir' = temp_dir \cup {JsonFile(now)}
            /\ pc' = "done"
            /\ result' =
                 Returned(SelectSeq(
                   <<pdf_filename, class_chart, JsonFile(now)>>
                     \o individual_charts,
                   LAMBDA f : f \in temp_dir'))
       ELSE /\ Abort
            /\ UNCHANGED << json_filename, archive, temp_dir >>
  /\ UNCHANGED << student_data, now, idx, reports, inflight, issued, last,
                  chart_idx, individual_charts, class_chart, pdf_filename >>
  /\ UNCHANGED << pdf_reports, http, chart_content, story >>
  /\ UNCHANGED << retry_vars, fb_vars, ins_vars, rn_vars, up_vars >>

\* ------------------------------------------------------------- web handler
\* a handler that packs whatever it got
HasFiles_always(report_files) == TRUE

\* if report_files: (main.py line 50)

HasFiles(report_files) == report_files # <<>>

\* main.py lines 50-80: the files that exist are zipped, removed from the
\* working directory and sent; without files, or when zipping or removing
\* raises, the handler flashes an error and redirects
RespondToRequest ==
  /\ pc = "done"
  /\ \E ok \in BOOLEAN :
       IF HasFiles(result.files)
       THEN IF ok
            THEN /\ http' = [status |-> "zip",
                             entries |-> SelectSeq(result.files,
                                           LAMBDA f : f \in temp_dir),
                             flash |-> ""]
                 /\ temp_dir' =
                      temp_dir \ { result.files[k] :
                                     k \in 1..Len(result.files) }
                 /\ chart_content' =
                      { c \in chart_content : c.file \in temp_dir' }
            ELSE /\ http' = [status |-> "redirect", entries |-> <<>>,
                             flash |-> "Error generating report: e"]
                 /\ UNCHANGED << temp_dir, chart_content >>
       ELSE /\ http' = [status |-> "redirect", entries |-> <<>>,
                        flash |-> "Error generating report. Please try again."]
            /\ UNCHANGED << temp_dir, chart_content >>
  /\ pc' = "responded"
  /\ UNCHANGED << student_data, now, idx, reports, inflight, issued, last,
                  chart_idx, individual_charts, class_chart, pdf_filename,
                  json_filename, archive, result, pdf_reports, story >>
  /\ UNCHANGED << retry_vars, fb_vars, ins_vars, rn_vars, up_vars >>

\* ------------------------------------------------------------- retry
\* The Retry object of lines 56-62, handed to generate_content (line 65).
RetryInitial == 1
RetryMaximum == 60
RetryMultiplier == 2
RetryDeadline == 120
\* longest time one attempt takes
MaxAttemptTime == 2

\* a predicate that retries after every error
RetryPredicate_any(exc) == TRUE

\* predicate=Retry.if_transient_error

RetryPredicate(exc) == exc = "transient"

Min(a, b) == IF a < b THEN a ELSE b

RetryStart ==
  /\ r_pc = "attempting"
  /\ r_clock = 0
  /\ r_delay = RetryInitial
  /\ r_starts = <<0>>
  /\ r_outcomes = <<>>
  /\ r_sleeps = <<>>

\* the attempt returns a response
AttemptSucceeds ==
  /\ r_pc = "attempting"
  /\ \E d \in 0..MaxAttemptTime : r_clock' = r_clock + d
  /\ r_outcomes' = Append(r_outcomes, "ok")
  /\ r_pc' = "returned"
  /\ UNCHANGED << r_delay, r_starts, r_sleeps >>
  /\ UNCHANGED << pipeline_vars, fb_vars, ins_vars, rn_vars, up_vars >>

\* the attempt raises: an error the predicate rejects propagates at once;
\* otherwise the next delay is slept unless it would pass the deadline
AttemptFails ==
  /\ r_pc = "attempting"
  /\ \E d \in 0..MaxAttemptTime, exc \in {"transient", "permanent"} :
       /\ r_clock' = r_clock + d
       /\ r_outcomes' = Append(r_outcomes, exc)
       /\ r_pc' = IF ~RetryPredicate(exc) THEN "raised"
                  ELSE IF r_clock + d + r_delay >= RetryDeadline
                       THEN "deadline"
                       ELSE "sleeping"
  /\ UNCHANGED << r_delay, r_starts, r_sleeps >>
  /\ UNCHANGED << pipeline_vars, fb_vars, ins_vars, rn_vars, up_vars >>

\* the delay is slept, the next one is multiplied and capped, and the next
\* attempt starts
SleepAndRetry ==
  /\ r_pc = "sleeping"
  /\ r_clock' = r_clock + r_delay
  /\ r_sleeps' = Append(r_sleeps, r_delay)
  /\ r_delay' = Min(r_delay * RetryMultiplier, RetryMaximum)
  /\ r_starts' = Append(r_starts, r_clock + r_delay)
  /\ r_pc' = "attempting"
  /\ UNCHANGED r_outcomes
  /\ UNCHANGED << pipeline_vars, fb_vars, ins_vars, rn_vars, up_vars >>

\* ------------------------------------------------------------- fallback runs
FallbackInputs ==
  { [name |-> n, grade |-> g, subject |-> sre[1], remark |-> sre[2],
     exam_date |-> sre[3]] :
      n \in {"A", "B"}, g \in {"Class 4", "Class 5"},
      sre \in {"Mathematics", "English"} \X {"rm1", "rm2"} \X {"d1", "d2"} }

FallbackStart ==
  /\ fb_a \in FallbackInputs
  /\ fb_b \in FallbackInputs
  /\ fb_out_a = <<>>
  /\ fb_out_b = <<>>

FallbackA ==
  /\ fb_out_a = <<>>
  /\ fb_out_a' = << create_enhanced_fallback_analysis(fb_a) >>
  /\ UNCHANGED << fb_a, fb_b, fb_out_b >>
  /\ UNCHANGED << pipeline_vars, retry_vars, ins_vars, rn_vars, up_vars >>

FallbackB ==
  /\ fb_out_b = <<>>
  /\ fb_out_b' = << create_enhanced_fallback_analysis(fb_b) >>
  /\ UNCHANGED << fb_a, fb_b, fb_out_a >>
  /\ UNCHANGED << pipeline_vars, retry_vars, ins_vars, rn_vars, up_vars >>

\* ------------------------------------------------------------- class insights
\* longest report list handed to the insight functions
MaxReports == 3

\* d.get(k, default)
GetOr(d, k, default) == IF HasKey(d, k) THEN d[k] ELSE default

\* analyses that put a student in each band and bucket
LowHelperAnalysis ==
  [type |-> "object",
   secs |-> [academic_performance |->
               [subject_mastery |-> 4,
                comprehension_level |-> 4,
                application_skills |-> 4,
                problem_solving |-> 4,
                retention_rate |-> 4],
             multi_grade_considerations |->
               [can_help_younger_students |-> TRUE,
                requires_individualized_attention |-> TRUE]]]

\* two metrics of mean exactly 7.5
BoundaryHighAnalysis ==
  [type |-> "object",
   secs |-> [academic_performance |->
               [subject_mastery |-> 7, comprehension_level |-> 8]]]

\* two metrics of mean exactly 5.5
BoundaryMidAnalysis ==
  [type |-> "object",
   secs |-> [academic_performance |->
               [subject_mastery |-> 5, comprehension_level |-> 6],
             student_profile |-> [learning_pace |-> "Slow"]]]

LowAnalysis ==
  [type |-> "object",
   secs |-> [academic_performance |->
               [subject_mastery |-> 5,
                comprehension_level |-> 5,
                application_skills |-> 5,
                problem_solving |-> 5,
                retention_rate |-> 5],
             detailed_challenges |->
               << [challenge |-> "Reading fluency", severity |-> "High"],
                  [root_cause |-> "Dialect"],
                  [challenge |-> "Handwriting", severity |-> "Low"],
                  [challenge |-> "Formal writing", severity |-> "High"] >>]]

\* an empty academic_performance dict, a multi-grade dict without the two
\* flags the insights read
NoScoresAnalysis ==
  [type |-> "object",
   secs |-> [academic_performance |-> <<>>,
             multi_grade_considerations |->
               [needs_advanced_challenges |-> TRUE]]]

InsightAnalyses ==
  { AiAnalysis, LowHelperAnalysis, BoundaryHighAnalysis, BoundaryMidAnalysis,
    LowAnalysis, NoScoresAnalysis }

InsightRecords ==
  { r \in ValidRecords : r.name = "B" \/ r.subject = "English" }

\* a record with the analysis it got: one of InsightAnalyses or its fallback
InsightChoices ==
  { [sd |-> sd, analysis |-> a] :
      sd \in InsightRecords, a \in InsightAnalyses }
  \cup { [sd |-> sd, analysis |-> create_enhanced_fallback_analysis(sd)] :
           sd \in InsightRecords }

\* a report list of step 1, from the records and analyses chosen: student_id
\* is the position
InsightReports(c) ==
  [k \in 1..Len(c) |-> MakeReport(k, c[k].sd, c[k].analysis, 0)]

RECURSIVE SumValues(_)
\* sum(d.values())
SumValues(d) ==
  IF DOMAIN d = {} THEN 0
  ELSE LET k == CHOOSE x \in DOMAIN d : TRUE
       IN d[k] + SumValues([j \in (DOMAIN d) \ {k} |-> d[j]])

\* np.mean(list(d.values())) as the fraction sum / n; n = 0 is nan
np_mean(d) == [sum |-> SumValues(d), n |-> Cardinality(DOMAIN d)]

\* a band that starts above 7.5
AtLeast7_5_strict(avg) == avg.n > 0 /\ 2 * avg.sum > 15 * avg.n

\* avg_score >= 7.5 (line 731); False for nan

AtLeast7_5(avg) == avg.n > 0 /\ 2 * avg.sum >= 15 * avg.n

\* an urgent band that reaches up to 6
Below5_5_six(avg) == avg.n > 0 /\ avg.sum < 6 * avg.n

\* avg_score < 5.5 (line 733); False for nan

Below5_5(avg) == avg.n > 0 /\ 2 * avg.sum < 11 * avg.n

\* k in d, for a dict kept as the sequence of its items
DictHas(d, k) == \E i \in 1..Len(d) : d[i].key = k

\* d[k]
DictGet(d, k) == d[CHOOSE i \in 1..Len(d) : d[i].key = k].vals

\* a dict that puts the newest key and the newest name first
DictAppend_front(d, k, x) ==
  IF DictHas(d, k)
  THEN [i \in 1..Len(d) |->
          IF d[i].key = k THEN [key |-> k, vals |-> <<x>> \o d[i].vals]
          ELSE d[i]]
  ELSE << [key |-> k, vals |-> <<x>>] >> \o d

\* if k not in d: d[k] = []; d[k].append(x)

DictAppend(d, k, x) ==
  IF DictHas(d, k)
  THEN [i \in 1..Len(d) |->
          IF d[i].key = k THEN [key |-> k, vals |-> Append(d[i].vals, x)]
          ELSE d[i]]
  ELSE Append(d, [key |-> k, vals |-> <<x>>])

RECURSIVE AppendIssues(_, _, _, _)
\* lines 753-762: one issue per challenge, under the report's subject
AppendIssues(d, subject, name, challenges) ==
  IF challenges = <<>> THEN d
  ELSE AppendIssues(
         DictAppend(d, subject,
                    [student |-> name,
                     issue |-> GetOr(Head(challenges), "challenge",
                                     "Unknown issue"),
                     severity |-> GetOr(Head(challenges), "severity",
                                        "Medium")]),
         subject, name, Tail(challenges))

\* lines 715-762: one iteration of the loop over reports
ScanReport ==
  /\ ins_pc = "scan"
  /\ LET report == ins_reports[ins_pos]
         name == report.student_name
         grade == report.grade
         subject == report.subject
         analysis == report.analysis.secs
         avg_score == np_mean(analysis.academic_performance)
         mg == analysis.multi_grade_considerations
     IN /\ grade_distribution' = DictAppend(grade_distribution, grade, name)
        /\ high_performers' =
             IF HasKey(analysis, "academic_performance")
                /\ AtLeast7_5(avg_score)
             THEN Append(high_performers, name)
             ELSE high_performers
        /\ need_urgent_support' =
             IF HasKey(analysis, "academic_performance")
                /\ ~AtLeast7_5(avg_score) /\ Below5_5(avg_score)
             THEN Append(need_urgent_support, name)
             ELSE need_urgent_support
        /\ peer_helpers' =
             IF HasKey(analysis, "multi_grade_considerations")
                /\ GetOr(mg, "can_help_younger_students", FALSE)
             THEN Append(peer_helpers, name)
             ELSE peer_helpers
        /\ individual_attention_students' =
             IF HasKey(analysis, "multi_grade_considerations")
                /\ GetOr(mg, "requires_individualized_attention", FALSE)
             THEN Append(individual_attention_students, name)
             ELSE individual_attention_students
        /\ attention_span_data' =
             IF HasKey(analysis, "student_profile")
             THEN DictAppend(attention_span_data,
                             GetOr(analysis.student_profile,
                                   "attention_span", "Medium"),
                             name)
             ELSE attention_span_data
        /\ subject_specific_issues' =
             IF HasKey(analysis, "detailed_challenges")
             THEN AppendIssues(subject_specific_issues, subject, name,
                               analysis.detailed_challenges)
             ELSE subject_specific_issues
  /\ ins_pos' = ins_pos + 1
  /\ ins_pc' = IF ins_pos = Len(ins_reports) THEN "emit" ELSE "scan"
  /\ UNCHANGED << ins_reports, insights, recommendations >>
  /\ UNCHANGED << pipeline_vars, retry_vars, fb_vars, rn_vars, up_vars >>

\* one directive string: the text it starts with, the values and the name
\* list interpolated into it
Line(kind, args, names) == [kind |-> kind, args |-> args, names |-> names]

\* s[:n]
SliceTo(s, n) == SubSeq(s, 1, Min(n, Len(s)))

\* s[n:]
SliceFrom(s, n) == SubSeq(s, n + 1, Len(s))

\* a pairing that gives every tutor the first learner
struggling_student_first(need, i) == need[1]

\* need_urgent_support[i] (line 781), i counted from 1

struggling_student(need, i) == need[i]

RECURSIVE PairLines(_, _, _)
\* lines 779-782: for i, helper in enumerate(peer_helpers)
PairLines(helpers, need, i) ==
  IF i > Len(helpers) THEN <<>>
  ELSE (IF i <= Len(need)
        THEN << Line("PAIR", <<>>,
                     << helpers[i], struggling_student(need, i) >>) >>
        ELSE <<>>)
       \o PairLines(helpers, need, i + 1)

\* a callout that also names the students of Medium severity
HighSeverityStudents_medium(issues_list) ==
  LET high == SelectSeq(issues_list,
                        LAMBDA issue : issue.severity \in {"High", "Medium"})
  IN [k \in 1..Len(high) |-> high[k].student]

\* [issue['student'] for issue in issues_list if issue['severity'] == 'High']
\* (line 797); empty exactly when high_severity_count is 0 (line 794)

HighSeverityStudents(issues_list) ==
  LET high == SelectSeq(issues_list, LAMBDA issue : issue.severity = "High")
  IN [k \in 1..Len(high) |-> high[k].student]

RECURSIVE SubjectLines(_)
\* lines 793-800: for subject, issues_list in subject_specific_issues.items()
SubjectLines(d) ==
  IF d = <<>> THEN <<>>
  ELSE (IF HighSeverityStudents(Head(d).vals) # <<>>
        THEN << Line("URGENT INTERVENTIONS", <<Head(d).key>>, <<>>),
                Line("STUDENTS NEEDING IMMEDIATE HELP", <<>>,
                     HighSeverityStudents(Head(d).vals)),
                Line("ACTION", <<Head(d).key>>, <<>>),
                Line("LOCATION", <<>>, <<>>) >>
        ELSE <<>>)
       \o SubjectLines(Tail(d))

\* lines 764-830: the directive strings, in order
generate_class_strategic_insights(total, grades, issues, attention, helpers, need, individual) ==
  << Line("IMMEDIATE CLASSROOM SETUP", <<>>, <<>>),
     Line("TOTAL CLASS SIZE", <<total, Len(individual)>>, <<>>) >>
  \o [k \in 1..Len(grades) |->
        Line("GRADE", <<grades[k].key, Len(grades[k].vals)>>,
             grades[k].vals)]
  \o (IF helpers # <<>> /\ need # <<>>
      THEN << Line("PEER TUTORING SYSTEM", <<>>, <<>>),
              Line("TUTORS AVAILABLE", <<>>, helpers),
              Line("STUDENTS NEEDING HELP", <<>>, need) >>
           \o PairLines(helpers, need, 1)
      ELSE <<>>)
  \o << Line("DAILY SCHEDULE OPTIMIZATION", <<>>, <<>>) >>
  \o (IF individual # <<>>
      THEN << Line("10:15-10:30 AM", <<>>, SliceTo(individual, 3)) >>
           \o (IF Len(individual) > 3
               THEN << Line("2:45-3:00 PM", <<>>, SliceFrom(individual, 3)) >>
               ELSE <<>>)
      ELSE <<>>)
  \o SubjectLines(issues)
  \o (IF attention # <<>> /\ DictHas(attention, "Short")
      THEN << Line("ATTENTION SPAN MANAGEMENT", <<>>, <<>>),
              Line("SHORT ATTENTION", <<>>, DictGet(attention, "Short")),
              Line("STRATEGY", <<>>, <<>>) >>
      ELSE <<>>)
  \o << Line("CLASSROOM LAYOUT", <<>>, <<>>),
        Line("FRONT ROW", <<>>, SliceTo(individual, 4)),
        Line("MIDDLE ROWS", <<>>, <<>>),
        Line("BACK LEFT CORNER", <<>>, <<>>),
        Line("BACK RIGHT CORNER", <<>>, <<>>),
        Line("PROGRESS TRACKING SYSTEM", <<>>, <<>>),
        Line("MONDAY", <<>>,
             IF need # <<>> THEN need ELSE <<"all students">>),
        Line("WEDNESDAY", <<>>,
             IF helpers # <<>> THEN helpers ELSE <<"advanced students">>),
        Line("FRIDAY", <<>>, <<>>),
        Line("MATERIALS NEEDED", <<>>, <<>>),
        Line("20 small stones", <<>>, <<>>),
        Line("3 cloth pieces", <<>>, <<>>),
        Line("2 small containers", <<>>, <<>>),
        Line("1 progress tracking sheet", <<>>, <<>>) >>

\* lines 764-830
EmitInsights ==
  /\ ins_pc = "emit"
  /\ insights' =
       generate_class_strategic_insights(
         Len(ins_reports), grade_distribution, subject_specific_issues,
         attention_span_data, peer_helpers, need_urgent_support,
         individual_attention_students)
  /\ ins_pc' = "recommend"
  /\ UNCHANGED << ins_reports, ins_pos, grade_distribution,
                  subject_specific_issues, attention_span_data,
                  high_performers, need_urgent_support, peer_helpers,
                  individual_attention_students, recommendations >>
  /\ UNCHANGED << pipeline_vars, retry_vars, fb_vars, rn_vars, up_vars >>

RECURSIVE GradeGroups(_)
\* lines 837-842: grade_groups
GradeGroups(rs) ==
  IF rs = <<>> THEN <<>>
  ELSE LET last_r == rs[Len(rs)]
       IN DictAppend(GradeGroups(SubSeq(rs, 1, Len(rs) - 1)),
                     last_r.grade, last_r.student_name)

\* student_names[k] if len(student_names) > k else default (k from 0)
NameOr(student_names, k, default) ==
  IF Len(student_names) > k THEN student_names[k + 1] ELSE default

\* lines 832-865
generate_multi_grade_recommendations(rs) ==
  LET student_names == [k \in 1..Len(rs) |-> rs[k].student_name]
      grade_groups == GradeGroups(rs)
  IN << Line("ZONE-BASED CLASSROOM SETUP", <<>>, SliceTo(student_names, 2)),
        Line("BUDDY SYSTEM IMPLEMENTATION", <<>>, <<>>),
        Line("MULTI-LEVEL MATERIALS CREATION", <<>>, <<>>),
        Line("ROTATION SCHEDULE", <<Len(grade_groups)>>, <<>>),
        Line("WEEKLY GOAL CONTRACTS", <<>>,
             << NameOr(student_names, 0, "Sample student") >>),
        Line("PARENT HOME ACTIVITIES", <<>>, <<>>),
        Line("OBSERVATION-BASED ASSESSMENT", <<>>, <<>>),
        Line("CROSS-GRADE LEARNING MATERIALS", <<>>, <<>>),
        Line("STUDENT LEADERSHIP SYSTEM", <<>>,
             << NameOr(student_names, 0, "Advanced student"),
                NameOr(student_names, 1, "Second student"),
                NameOr(student_names, 2, "Third student") >>),
        Line("FOCUSED PROGRESS TRACKING", <<>>,
             << NameOr(student_names, 0, "sample student") >>) >>

\* line 689
Recommend ==
  /\ ins_pc = "recommend"
  /\ recommendations' = generate_multi_grade_recommendations(ins_reports)
  /\ ins_pc' = "done"
  /\ UNCHANGED << ins_reports, ins_pos, grade_distribution,
                  subject_specific_issues, attention_span_data,
                  high_performers, need_urgent_support, peer_helpers,
                  individual_attention_students, insights >>
  /\ UNCHANGED << pipeline_vars, retry_vars, fb_vars, rn_vars, up_vars >>

\* the list is never empty (line 469)
InsightsStart ==
  /\ \E n \in 1..MaxReports :
       \E c \in [1..n -> InsightChoices] : ins_reports = InsightReports(c)
  /\ ins_pc = "scan"
  /\ ins_pos = 1
  /\ grade_distribution = <<>>
  /\ subject_specific_issues = <<>>
  /\ attention_span_data = <<>>
  /\ high_performers = <<>>
  /\ need_urgent_support = <<>>
  /\ peer_helpers = <<>>
  /\ individual_attention_students = <<>>
  /\ insights = <<>>
  /\ recommendations = <<>>

\* ------------------------------------------------------------- a class
\* largest class handed to the insight functions
MaxClass == 4

\* two students of one grade and subject, a third of another grade and
\* subject
ClassRecords ==
  { [name |-> "A", grade |-> "Class 4", subject |-> "Mathematics",
     remark |-> "rm1", exam_date |-> "d1"],
    [name |-> "B", grade |-> "Class 4", subject |-> "Mathematics",
     remark |-> "rm2", exam_date |-> "d2"],
    [name |-> "C", grade |-> "Class 5", subject |-> "English",
     remark |-> "rm3", exam_date |-> "d3"] }

\* a student with the assessment resolved for it: the fallback, or one the
\* service returned (two students can get the strong one, two the weak one)
ClassChoices ==
  { [sd |-> sd, analysis |-> create_enhanced_fallback_analysis(sd)] :
      sd \in ClassRecords }
  \cup { [sd |-> sd, analysis |-> AiAnalysis] :
           sd \in { r \in ClassRecords : r.name \in {"A", "C"} } }
  \cup { [sd |-> sd, analysis |-> LowAnalysis] :
           sd \in { r \in ClassRecords : r.name \in {"A", "B"} } }

\* the list is never empty (line 469)
ClassStart ==
  /\ \E n \in 1..MaxClass :
       \E c \in [1..n -> ClassChoices] : ins_reports = InsightReports(c)
  /\ ins_pc = "scan"
  /\ ins_pos = 1
  /\ grade_distribution = <<>>
  /\ subject_specific_issues = <<>>
  /\ attention_span_data = <<>>
  /\ high_performers = <<>>
  /\ need_urgent_support = <<>>
  /\ peer_helpers = <<>>
  /\ individual_attention_students = <<>>
  /\ insights = <<>>
  /\ recommendations = <<>>

\* ------------------------------------------------------------- panels
\* d restricted to the keys in S
Restrict(d, S) == [k \in (DOMAIN d) \cap S |-> d[k]]

\* the seven sections of an Assessment
SevenSections ==
  {"student_profile", "academic_performance", "multi_grade_considerations",
   "detailed_strengths", "detailed_challenges", "sahayak_interventions",
   "personalized_summary"}

\* a summary that holds the timeline only
TimelineOnlyAnalysis ==
  [type |-> "object",
   secs |-> [s \in SevenSections |->
               IF s = "personalized_summary"
               THEN [success_timeline_with_numbers |->
                       "Week 2: 50% improvement"]
               ELSE AiAnalysis.secs[s]]]

\* analyses with any subset of the sections absent; the empty dict is never
\* reported (line 455)
RenderInputs ==
  { a \in { [type |-> "object", secs |-> Restrict(b.secs, S)] :
              b \in {AiAnalysis, FallbackTemplate("Class 4", "A"),
                     TimelineOnlyAnalysis},
              S \in SUBSET SevenSections } : Truthy(a) }

\* lines 223-309: the panels create_student_visualization draws
StudentPanels(analysis) ==
  (IF HasKey(analysis, "academic_performance")
   THEN {"Academic Performance Profile"} ELSE {})
  \cup (IF HasKey(analysis, "student_profile")
        THEN {"Student Profile"} ELSE {})
  \cup (IF HasKey(analysis, "multi_grade_considerations")
        THEN {"Multi-Grade Classroom Fit"} ELSE {})
  \cup {"Learning Profile Overview"}
  \cup (IF HasKey(analysis, "personalized_summary")
           /\ HasKey(analysis.personalized_summary,
                     "this_week_implementation")
        THEN {"Implementation Plan"} ELSE {})
  \cup (IF HasKey(analysis, "personalized_summary")
        THEN {"Success Timeline"} ELSE {})

\* lines 647-682: the subsections of one student's part of the document
StudentSubsections(analysis) ==
  {"Teacher's Observation"}
  \cup (IF HasKey(analysis, "personalized_summary")
           /\ HasKey(analysis.personalized_summary,
                     "immediate_actions_for_tomorrow")
        THEN {"Immediate Actions"} ELSE {})
  \cup (IF HasKey(analysis, "detailed_strengths")
        THEN {"Key Strengths"} ELSE {})
  \cup (IF HasKey(analysis, "sahayak_interventions")
        THEN {"Immediate Action Items"} ELSE {})
  \cup (IF HasKey(analysis, "personalized_summary")
           /\ HasKey(analysis.personalized_summary,
                     "this_week_implementation")
        THEN {"This Week Implementation"} ELSE {})

RenderStart ==
  /\ rn_analysis \in RenderInputs
  /\ rn_panels = <<>>
  /\ rn_sections = <<>>

\* create_student_visualization on the analysis
DrawChart ==
  /\ rn_panels = <<>>
  /\ rn_panels' = << StudentPanels(rn_analysis.secs) >>
  /\ UNCHANGED << rn_analysis, rn_sections >>
  /\ UNCHANGED << pipeline_vars, retry_vars, fb_vars, ins_vars, up_vars >>

\* the student's part of generate_comprehensive_pdf_report
WriteStudentSection ==
  /\ rn_sections = <<>>
  /\ rn_sections' = << StudentSubsections(rn_analysis.secs) >>
  /\ UNCHANGED << rn_analysis, rn_panels >>
  /\ UNCHANGED << pipeline_vars, retry_vars, fb_vars, ins_vars, up_vars >>

\* ------------------------------------------------------------- uploads
\* the requests in flight
Requests == {1, 2}

\* self.student_data when no upload is read (lines 39-45)
DemoCorpus == "demo"

\* record lists a client may upload
UploadContents == {"rows1", "rows2"}

\* a client file name: directory parts, stem and extension
FileName(dirs, stem, ext) == [dirs |-> dirs, stem |-> stem, ext |-> ext]

UploadNames ==
  { FileName(<<>>, "a", "json"), FileName(<<"..">>, "a", "json"),
    FileName(<<>>, "b", "json"), FileName(<<>>, "a", "txt"),
    FileName(<<>>, "", "") }

\* a request without the student_data part
NoPart == [part |-> FALSE, filename |-> FileName(<<>>, "", ""), content |-> ""]

Uploads ==
  { NoPart }
  \cup { [part |-> TRUE, filename |-> n, content |-> c] :
           n \in UploadNames, c \in UploadContents }

\* secure_filename (main.py line 103): path separators do not survive, so
\* the name is left without its directory parts
secure_filename(n) == FileName(<<>>, n.stem, n.ext)

\* main.py lines 92-101: the part is there, has a name, and the name ends
\* with .json
Accepted(upload) ==
  /\ upload.part
  /\ upload.filename # FileName(<<>>, "", "")
  /\ upload.filename.ext = "json"

\* the flash of lines 93, 98 and 141
RejectFlash(upload) ==
  IF ~upload.part THEN "No file uploaded"
  ELSE IF upload.filename = FileName(<<>>, "", "") THEN "No file selected"
  ELSE "Please upload a valid JSON file."

\* os.path.exists(path) in the upload folder
Exists(folder, path) == \E f \in folder : f.name = path

\* the content of the file at path
ReadFile(folder, path) == (CHOOSE f \in folder : f.name = path).content

\* file.save(filepath): a file of that name is replaced
file_save(folder, path, content) ==
  { f \in folder : f.name # path } \cup { [name |-> path, content |-> content] }

\* os.remove(filepath)
os_remove(folder, path) == { f \in folder : f.name # path }

NoPath == FileName(<<>>, "", "")
NotLoaded == "none"
Pending == [status |-> "none", flash |-> ""]
Redirect(flash) == [status |-> "redirect", flash |-> flash]
SendZip == [status |-> "zip", flash |-> ""]

\* the artifacts of a run, in the directory it made
Artifacts(d) ==
  << [dir |-> d, name |-> "SAHAYAK_Complete_Report.pdf"],
     [dir |-> d, name |-> "sahayak_class_analytics.png"] >>

\* the files a run that returned [] may have written before it failed
Leftovers(d) == << [dir |-> d, name |-> "sahayak_class_analytics.png"] >>

Range(seq) == { seq[k] : k \in 1..Len(seq) }

UploadStart ==
  /\ upload_folder = {}
  /\ made_dirs = 0
  /\ disk = {}
  /\ rq \in [Requests ->
               { [pc |-> "received", upload |-> u, filepath |-> NoPath,
                  student_data |-> NotLoaded, temp_dir |-> 0,
                  report_files |-> <<>>, answer |-> Pending] :
                 u \in Uploads }]

\* main.py lines 92-99 and 140-142
RejectUpload ==
  /\ \E q \in Requests :
       /\ rq[q].pc = "received"
       /\ ~Accepted(rq[q].upload)
       /\ rq' = [rq EXCEPT ![q].pc = "answered",
                           ![q].answer = Redirect(RejectFlash(rq[q].upload))]
  /\ UNCHANGED << upload_folder, made_dirs, disk >>
  /\ UNCHANGED << pipeline_vars, retry_vars, fb_vars, ins_vars, rn_vars >>

\* main.py lines 103-105
SaveUpload ==
  /\ \E q \in Requests :
       LET filepath == secure_filename(rq[q].upload.filename)
       IN /\ rq[q].pc = "received"
          /\ Accepted(rq[q].upload)
          /\ upload_folder' =
               file_save(upload_folder, filepath, rq[q].upload.content)
          /\ rq' = [rq EXCEPT ![q].pc = "saved", ![q].filepath = filepath]
  /\ UNCHANGED << made_dirs, disk >>
  /\ UNCHANGED << pipeline_vars, retry_vars, fb_vars, ins_vars, rn_vars >>

\* main.py line 108 and SahayakAnalytics.__init__ (lines 30-48): the file at
\* custom_data_path is read when it exists, the demo corpus is taken when it
\* does not, and a directory is made; an exception (genai.configure, or
\* json.load of a file that is not JSON) is answered by lines 144-147
Construct ==
  /\ \E q \in Requests, ok \in BOOLEAN :
       /\ rq[q].pc = "saved"
       /\ IF ok
          THEN /\ rq' = [rq EXCEPT
                          ![q].pc = "constructed",
                          ![q].student_data =
                             IF Exists(upload_folder, rq[q].filepath)
                             THEN ReadFile(upload_folder, rq[q].filepath)
                             ELSE DemoCorpus,
                          ![q].temp_dir = made_dirs + 1]
               /\ made_dirs' = made_dirs + 1
          ELSE /\ rq' = [rq EXCEPT
                          ![q].pc = "answered",
                          ![q].answer =
                             Redirect("Error processing upload: e")]
               /\ UNCHANGED made_dirs
  /\ UNCHANGED << upload_folder, disk >>
  /\ UNCHANGED << pipeline_vars, retry_vars, fb_vars, ins_vars, rn_vars >>

\* main.py line 111: generate_complete_report writes into self.temp_dir and
\* returns the files, or returns [] (lines 471, 519), with or without files
\* written before the failure
Generate ==
  /\ \E q \in Requests, outcome \in {"bundle", "failed", "nothing"} :
       /\ rq[q].pc = "constructed"
       /\ disk' = disk \cup
            (IF outcome = "bundle" THEN Range(Artifacts(rq[q].temp_dir))
             ELSE IF outcome = "failed" THEN Range(Leftovers(rq[q].temp_dir))
             ELSE {})
       /\ rq' = [rq EXCEPT
                   ![q].pc = "generated",
                   ![q].report_files =
                      IF outcome = "bundle" THEN Artifacts(rq[q].temp_dir)
                      ELSE <<>>]
  /\ UNCHANGED << upload_folder, made_dirs >>
  /\ UNCHANGED << pipeline_vars, retry_vars, fb_vars, ins_vars, rn_vars >>

\* main.py lines 113-147: with files, they are zipped and removed, the
\* upload is removed (os.remove raises when it is no longer there, which
\* lines 144-147 answer) and the zip is sent; without files, lines 138-139
Deliver ==
  /\ \E q \in Requests :
       /\ rq[q].pc = "generated"
       /\ IF rq[q].report_files # <<>>
          THEN /\ disk' = disk \ Range(rq[q].report_files)
               /\ IF Exists(upload_folder, rq[q].filepath)
                  THEN /\ upload_folder' =
                            os_remove(upload_folder, rq[q].filepath)
                       /\ rq' = [rq EXCEPT ![q].pc = "answered",
                                           ![q].answer = SendZip]
                  ELSE /\ UNCHANGED upload_folder
                       /\ rq' = [rq EXCEPT
                                   ![q].pc = "answered",
                                   ![q].answer =
                                      Redirect("Error processing upload: e")]
          ELSE /\ UNCHANGED << disk, upload_folder >>
               /\ rq' = [rq EXCEPT
                           ![q].pc = "answered",
                           ![q].answer =
                              Redirect("Error generating report from uploaded data.")]
  /\ UNCHANGED made_dirs
  /\ UNCHANGED << pipeline_vars, retry_vars, fb_vars, ins_vars, rn_vars >>

\* ------------------------------------------------------------- specifications
\* the state of a machine that a specification does not run
RetryIdle ==
  /\ r_pc = "idle"
  /\ r_clock = 0
  /\ r_delay = RetryInitial
  /\ r_starts = <<>>
  /\ r_outcomes = <<>>
  /\ r_sleeps = <<>>

FallbackIdle ==
  /\ fb_a = BaseRecord
  /\ fb_b = BaseRecord
  /\ fb_out_a = <<>>
  /\ fb_out_b = <<>>

InsightsIdle ==
  /\ ins_reports = <<>>
  /\ ins_pc = "idle"
  /\ ins_pos = 1
  /\ grade_distribution = <<>>
  /\ subject_specific_issues = <<>>
  /\ attention_span_data = <<>>
  /\ high_performers = <<>>
  /\ need_urgent_support = <<>>
  /\ peer_helpers = <<>>
  /\ individual_attention_students = <<>>
  /\ insights = <<>>
  /\ recommendations = <<>>

RenderIdle ==
  /\ rn_analysis = EmptyObject
  /\ rn_panels = <<>>
  /\ rn_sections = <<>>

UploadIdle ==
  /\ upload_folder = {}
  /\ made_dirs = 0
  /\ disk = {}
  /\ rq = <<>>

PipelineIdle ==
  /\ student_data = [type |-> "array", items |-> <<>>]
  /\ temp_dir = {}
  /\ now = 0
  /\ pc = "idle"
  /\ idx = 1
  /\ reports = <<>>
  /\ inflight = {}
  /\ issued = <<>>
  /\ last = NoCall
  /\ chart_idx = 1
  /\ individual_charts = <<>>
  /\ class_chart = NoFile
  /\ pdf_filename = NoFile
  /\ json_filename = NoFile
  /\ archive = NoArchive
  /\ result = NotReturned
  /\ pdf_reports = <<>>
  /\ http = NoAnswer
  /\ chart_content = {}
  /\ story = <<>>

\* one run of generate_complete_report
Init ==
  PipelineInit /\ RetryIdle /\ FallbackIdle /\ InsightsIdle /\ RenderIdle
  /\ UploadIdle

Next ==
  \/ Tick
  \/ IterRaises
  \/ RecordRaises
  \/ IssueCall
  \/ CallReturns
  \/ NoReports
  \/ StartCharts
  \/ CreateStudentVisualization
  \/ CreateClassDashboard
  \/ GeneratePdf
  \/ SaveArchive
  \/ RespondToRequest

Spec == Init /\ [][Next]_vars

\* one generate_content call under the Retry object
InitRetry ==
  PipelineIdle /\ RetryStart /\ FallbackIdle /\ InsightsIdle /\ RenderIdle
  /\ UploadIdle

NextRetry == AttemptSucceeds \/ AttemptFails \/ SleepAndRetry

SpecRetry == InitRetry /\ [][NextRetry]_vars

\* create_enhanced_fallback_analysis applied to two records
InitFallback ==
  PipelineIdle /\ RetryIdle /\ FallbackStart /\ InsightsIdle /\ RenderIdle
  /\ UploadIdle

NextFallback == FallbackA \/ FallbackB

SpecFallback == InitFallback /\ [][NextFallback]_vars

\* generate_class_strategic_insights and generate_multi_grade_recommendations
\* on one report list
InitInsights ==
  PipelineIdle /\ RetryIdle /\ FallbackIdle /\ InsightsStart /\ RenderIdle
  /\ UploadIdle

NextInsights == ScanReport \/ EmitInsights \/ Recommend

SpecInsights == InitInsights /\ [][NextInsights]_vars

\* the chart and the document part of one analysis
InitRender ==
  PipelineIdle /\ RetryIdle /\ FallbackIdle /\ InsightsIdle /\ RenderStart
  /\ UploadIdle

NextRender == DrawChart \/ WriteStudentSection

SpecRender == InitRender /\ [][NextRender]_vars

\* the insight functions on a class of up to MaxClass students
InitClass ==
  PipelineIdle /\ RetryIdle /\ FallbackIdle /\ ClassStart /\ RenderIdle
  /\ UploadIdle

NextClass == ScanReport \/ EmitInsights \/ Recommend

SpecClass == InitClass /\ [][NextClass]_vars

\* two /generate-custom-report requests, their steps interleaved
InitUpload ==
  PipelineIdle /\ RetryIdle /\ FallbackIdle /\ InsightsIdle /\ RenderIdle
  /\ UploadStart

NextUpload == RejectUpload \/ SaveUpload \/ Construct \/ Generate \/ Deliver

SpecUpload == InitUpload /\ [][NextUpload]_vars

\* ------------------------------------------------------------- claims
\* the record of the call that has just returned
LastRecord == student_data.items[last.idx]

\* the response carries no usable payload: the call raised, returned nothing
\* or no text, or its text (fence markers stripped) does not parse as JSON
FailureResponse(r) ==
  \/ r.kind \in {"raise", "none", "notext"}
  \/ r.kind = "text" /\ ~json_loads(CleanResponseText(r.text)).ok

\* the input is a list whose records all hold the five required fields
ValidBatch ==
  /\ student_data.type = "array"
  /\ \A k \in 1..Len(student_data.items) :
       IsValidRecord(student_data.items[k])

\* the Assessment schema of the data model: a dict whose sections, when
\* present, are well shaped (scores in 1..10, severity Low/Medium/High)
ConformsToSchema(v) ==
  /\ v.type = "object"
  /\ HasKey(v.secs, "academic_performance") =>
       \A m \in DOMAIN v.secs.academic_performance :
         v.secs.academic_performance[m] \in 1..10
  /\ HasKey(v.secs, "detailed_challenges") =>
       \A k \in 1..Len(v.secs.detailed_challenges) :
         v.secs.detailed_challenges[k].severity \in {"Low", "Medium", "High"}

\* C1: for a record that has name, grade, subject and remark,
\* analyze_student_with_ai does not raise (the call is issued and the run is
\* not ended by the record), and when the reasoning call raised, returned no
\* response or no text, or returned text that does not parse as JSON, the
\* value returned is exactly create_enhanced_fallback_analysis(record).
C1_FallbackOnFailure ==
  /\ (pc = "loop" /\ Iterable(student_data)
        /\ idx <= Len(student_data.items)
        /\ PromptFields \subseteq DOMAIN student_data.items[idx])
       => (ENABLED IssueCall /\ ~ENABLED RecordRaises)
  /\ (last.idx # 0 /\ FailureResponse(last.response))
       => last.analysis = create_enhanced_fallback_analysis(LastRecord)

C1_Witness ==
  /\ last.idx # 0
  /\ last.response = TextResponse(<<Junk>>)
  /\ last.analysis = create_enhanced_fallback_analysis(LastRecord)

\* C2: over valid records, once the analysis loop is over the reports hold
\* exactly one report per input record, whatever the service returned.
C2_OneReportPerRecord ==
  (ValidBatch /\ pc \notin {"loop", "call"})
    => Len(reports) = Len(student_data.items)

\* C3: every analysis returned by analyze_student_with_ai, and every
\* analysis stored in a report, conforms to the Assessment schema or is
\* exactly the fallback assessment of its record.
C3_SchemaOrFallback ==
  /\ last.idx # 0 =>
       \/ ConformsToSchema(last.analysis)
       \/ last.analysis = create_enhanced_fallback_analysis(LastRecord)
  /\ \A k \in 1..Len(reports) :
       \/ ConformsToSchema(reports[k].analysis)
       \/ reports[k].analysis =
            create_enhanced_fallback_analysis(
              student_data.items[reports[k].student_id])

\* C4: when the input is not a list of records that all hold the five
\* required fields, no reasoning call is issued for any record and the run
\* returns nothing.
C4_NoCallOnInvalidBatch ==
  ~ValidBatch =>
    /\ issued = <<>>
    /\ result.files = <<>>

\* the reasoning service failed for a student: no usable payload, or a
\* payload that parses but is malformed
ServiceFailure(r) ==
  \/ FailureResponse(r)
  \/ ~ConformsToSchema(json_loads(CleanResponseText(r.text)).v)

\* C5: over valid records, a reasoning-service failure for one student
\* (permanent failure, malformed or unparseable response, retries exhausted)
\* resolves to the fallback assessment for that student: the run goes on,
\* the student's report holds the fallback, the earlier reports are kept.
C5_FailureIsolated ==
  (ValidBatch /\ last.idx # 0 /\ ServiceFailure(last.response)) =>
    /\ last.analysis = create_enhanced_fallback_analysis(LastRecord)
    /\ pc = "loop"
    /\ reports # <<>>
    /\ reports[Len(reports)].student_id = last.idx
    /\ reports[Len(reports)].analysis =
         create_enhanced_fallback_analysis(LastRecord)

\* 2^n
RECURSIVE Pow2(_)
Pow2(n) == IF n = 0 THEN 1 ELSE 2 * Pow2(n - 1)

\* C6: an attempt is retried only after a transient failure (a permanent
\* failure is the last attempt); the delays slept are 1, 2, 4, ... and the
\* delay never exceeds 60; every attempt starts less than 120 time units
\* after the first; at most 7 attempts are made and the call ends.
C6_BoundedRetry ==
  /\ \A k \in 1..(Len(r_starts) - 1) : r_outcomes[k] = "transient"
  /\ \A k \in 1..Len(r_sleeps) : r_sleeps[k] = Pow2(k - 1)
  /\ r_delay = Min(Pow2(Len(r_sleeps)), 60)
  /\ \A k \in 1..Len(r_starts) : r_starts[k] - r_starts[1] < 120
  /\ Len(r_starts) <= 7
  /\ r_pc \in {"returned", "raised", "deadline"} \/ ENABLED NextRetry

C6_Witness ==
  /\ r_pc = "deadline"
  /\ Len(r_starts) = 7
  /\ r_delay = 60

\* a step of render or assembly has happened or is next
Rendering ==
  \/ pc \in {"charts", "dashboard", "pdf", "archive"}
  \/ individual_charts # <<>>
  \/ class_chart # NoFile
  \/ pdf_filename # NoFile
  \/ json_filename # NoFile

\* C7: no chart, dashboard or document is generated before the assessment
\* of every record of the run is resolved: a call was issued for each record
\* and each has returned.
C7_RenderAfterAllAssessed ==
  Rendering =>
    /\ inflight = {}
    /\ { issued[j].idx : j \in 1..Len(issued) }
         = 1..Len(student_data.items)

C7_Witness ==
  /\ Len(student_data.items) = 2
  /\ Len(individual_charts) = 1
  /\ pc = "charts"

\* C8: at most one reasoning call is in flight, calls are issued in input
\* order, and a call in flight is the latest issued (the earlier ones have
\* all returned).
C8_SequentialCalls ==
  /\ Cardinality(inflight) <= 1
  /\ \A j \in 1..Len(issued) : issued[j].idx = j
  /\ \A k \in inflight : k = Len(issued)

C8_Witness ==
  /\ Len(issued) = 2
  /\ inflight = {2}
  /\ Len(reports) = 1

\* C9: two records that agree on name and grade get identical fallback
\* assessments, whatever their subject, remark and exam date.
C9_FallbackOfNameAndGrade ==
  (fb_out_a # <<>> /\ fb_out_b # <<>>
     /\ fb_a.name = fb_b.name /\ fb_a.grade = fb_b.grade)
    => fb_out_a = fb_out_b

C9_Witness ==
  /\ fb_out_a # <<>> /\ fb_out_b # <<>>
  /\ fb_a.name = fb_b.name /\ fb_a.grade = fb_b.grade
  /\ fb_a.subject # fb_b.subject
  /\ fb_a.remark # fb_b.remark
  /\ fb_a.exam_date # fb_b.exam_date
  /\ fb_out_a = fb_out_b

\* C10: the fallback assessment holds all seven sections, scores 6 on each
\* of the five metrics, is labelled Average (pace) and Medium (attention
\* span, independence, challenge severity), has one strength, one challenge
\* and one intervention, and three immediate actions, the student's name
\* interpolated.
C10_FallbackContent ==
  fb_out_a # <<>> =>
    LET f == fb_out_a[1].secs
    IN /\ DOMAIN f = SevenSections
       /\ Cardinality(DOMAIN f.academic_performance) = 5
       /\ \A m \in DOMAIN f.academic_performance :
            f.academic_performance[m] = 6
       /\ f.student_profile.learning_pace = "Average"
       /\ f.student_profile.attention_span = "Medium"
       /\ f.student_profile.independence_level = "Medium"
       /\ Len(f.detailed_strengths) = 1
       /\ Len(f.detailed_challenges) = 1
       /\ f.detailed_challenges[1].severity = "Medium"
       /\ Len(f.sahayak_interventions) = 1
       /\ Len(f.personalized_summary.immediate_actions_for_tomorrow) = 3
       /\ \E k \in 1..3, j \in 1..3 :
            /\ j <= Len(f.personalized_summary
                          .immediate_actions_for_tomorrow[k])
            /\ f.personalized_summary.immediate_actions_for_tomorrow[k][j]
                 = fb_a.name

\* the names of a report list, in order
NamesOf(rs) == [k \in 1..Len(rs) |-> rs[k].student_name]

\* the reports the loop of generate_class_strategic_insights has scanned
Scanned == SubSeq(ins_reports, 1, ins_pos - 1)

HasScores(r) == HasKey(r.analysis.secs, "academic_performance")

\* the mean of the report's scores is defined and at least tenths / 10
MeanAtLeast(r, tenths) ==
  LET ap == r.analysis.secs.academic_performance
  IN /\ DOMAIN ap # {}
     /\ 10 * SumValues(ap) >= tenths * Cardinality(DOMAIN ap)

\* the mean of the report's scores is defined and below tenths / 10
MeanBelow(r, tenths) ==
  LET ap == r.analysis.secs.academic_performance
  IN /\ DOMAIN ap # {}
     /\ 10 * SumValues(ap) < tenths * Cardinality(DOMAIN ap)

\* C11: among the scanned reports that have an academic_performance section,
\* high_performers holds (in input order) exactly those of mean >= 7.5 and
\* need_urgent_support exactly those of mean < 5.5; a mean of exactly 7.5 is
\* high, a mean of exactly 5.5 is in neither list, and no report is in both.
C11_BandByMean ==
  /\ high_performers =
       NamesOf(SelectSeq(Scanned,
                         LAMBDA r : HasScores(r) /\ MeanAtLeast(r, 75)))
  /\ need_urgent_support =
       NamesOf(SelectSeq(Scanned,
                         LAMBDA r : HasScores(r) /\ MeanBelow(r, 55)))
  /\ Len(high_performers) + Len(need_urgent_support)
       <= Len(SelectSeq(Scanned, HasScores))

C11_Witness ==
  /\ ins_pc = "done"
  /\ Len(ins_reports) = 2
  /\ ins_reports[1].analysis = BoundaryHighAnalysis
  /\ ins_reports[2].analysis = BoundaryMidAnalysis
  /\ high_performers = << ins_reports[1].student_name >>
  /\ need_urgent_support = <<>>

\* the report's analysis has can_help_younger_students = true
CanHelp(r) ==
  /\ HasKey(r.analysis.secs, "multi_grade_considerations")
  /\ HasKey(r.analysis.secs.multi_grade_considerations,
            "can_help_younger_students")
  /\ r.analysis.secs.multi_grade_considerations.can_help_younger_students

\* the PAIR lines of a directive list, in order
PairsIn(lines) == SelectSeq(lines, LAMBDA l : l.kind = "PAIR")

\* C12: with H the peer helpers and U the urgent-support students, both in
\* input order, the insights hold exactly min(|H|, |U|) PAIR lines, the i-th
\* pairing H[i] with U[i].
C12_PositionalPairing ==
  ins_pc \in {"recommend", "done"} =>
    LET H == NamesOf(SelectSeq(ins_reports, CanHelp))
        U == NamesOf(SelectSeq(ins_reports,
                               LAMBDA r : HasScores(r) /\ MeanBelow(r, 55)))
        pairs == PairsIn(insights)
    IN /\ peer_helpers = H
       /\ need_urgent_support = U
       /\ Len(pairs) = Min(Len(H), Len(U))
       /\ \A i \in 1..Len(pairs) : pairs[i].names = << H[i], U[i] >>

C12_Witness ==
  /\ ins_pc = "done"
  /\ Len(peer_helpers) = 1
  /\ Len(need_urgent_support) = 2
  /\ need_urgent_support[2] \notin {peer_helpers[1], need_urgent_support[1]}
  /\ PairsIn(insights) =
       << Line("PAIR", <<>>, << peer_helpers[1], need_urgent_support[1] >>) >>

\* the directives about peer tutoring: header, tutor line, pair line,
\* peer-tutor feedback line, peer-tutoring station and corner, buddy system
PeerTutoringKinds ==
  {"PEER TUTORING SYSTEM", "TUTORS AVAILABLE", "PAIR", "WEDNESDAY",
   "BACK LEFT CORNER", "ZONE-BASED CLASSROOM SETUP",
   "BUDDY SYSTEM IMPLEMENTATION"}

\* the kinds of the lines of a directive list
KindsOf(lines) == { lines[k].kind : k \in 1..Len(lines) }

\* C13: when no student has can_help_younger_students = true, neither the
\* insights nor the recommendations hold a peer-tutoring directive.
C13_NoPeerTutoringWithoutHelpers ==
  (ins_pc = "done" /\ \A k \in 1..Len(ins_reports) : ~CanHelp(ins_reports[k]))
    => KindsOf(insights \o recommendations) \cap PeerTutoringKinds = {}

\* the directives that substitute a bucket's name list
NameListKinds ==
  {"TUTORS AVAILABLE", "STUDENTS NEEDING HELP", "10:15-10:30 AM",
   "2:45-3:00 PM", "STUDENTS NEEDING IMMEDIATE HELP", "SHORT ATTENTION",
   "FRONT ROW"}

\* C14: in the insights, a category whose bucket is empty (peer helpers,
\* urgent-support students, individual-attention students, short-attention
\* students, high-severity challenges of a subject) has no line: no header
\* and no directive with an empty name list.
C14_EmptyBucketSuppressed ==
  ins_pc \in {"recommend", "done"} =>
    /\ peer_helpers = <<>> =>
         KindsOf(insights)
           \cap {"PEER TUTORING SYSTEM", "TUTORS AVAILABLE", "PAIR"} = {}
    /\ need_urgent_support = <<>> =>
         KindsOf(insights)
           \cap {"PEER TUTORING SYSTEM", "STUDENTS NEEDING HELP", "PAIR"} = {}
    /\ individual_attention_students = <<>> =>
         KindsOf(insights)
           \cap {"10:15-10:30 AM", "2:45-3:00 PM", "FRONT ROW"} = {}
    /\ ~DictHas(attention_span_data, "Short") =>
         KindsOf(insights)
           \cap {"ATTENTION SPAN MANAGEMENT", "SHORT ATTENTION", "STRATEGY"}
             = {}
    /\ \A k \in 1..Len(insights) :
         insights[k].kind = "URGENT INTERVENTIONS" =>
           \E j \in 1..Len(ins_reports) :
             /\ ins_reports[j].subject = insights[k].args[1]
             /\ HasKey(ins_reports[j].analysis.secs, "detailed_challenges")
             /\ \E c \in 1..Len(ins_reports[j].analysis.secs
                                  .detailed_challenges) :
                  GetOr(ins_reports[j].analysis.secs.detailed_challenges[c],
                        "severity", "Medium") = "High"
    /\ \A k \in 1..Len(insights) :
         insights[k].kind \in NameListKinds => insights[k].names # <<>>

\* C15: a run over N valid records whose render and assembly steps all
\* succeeded returns N + 3 distinct existing files: one document, one
\* dashboard image, one archive and one image per student.
C15_CompleteBundle ==
  (ValidBatch /\ pc = "done" /\ json_filename # NoFile) =>
    LET files == result.files
        OfKind(kind) == { k \in 1..Len(files) : files[k].kind = kind }
    IN /\ Len(files) = Len(student_data.items) + 3
       /\ \A j, k \in 1..Len(files) : files[j] = files[k] => j = k
       /\ \A k \in 1..Len(files) : files[k] \in temp_dir
       /\ Cardinality(OfKind("pdf")) = 1
       /\ Cardinality(OfKind("class_chart")) = 1
       /\ Cardinality(OfKind("json")) = 1
       /\ Cardinality(OfKind("student_chart")) = Len(student_data.items)

\* C16: a response whose text is the serialization of a JSON value v, bare
\* or wrapped in a fenced block tagged json, makes analyze_student_with_ai
\* return v; a text of any other shape makes it return the fallback.
C16_BareOrFenced ==
  (last.idx # 0 /\ last.response.kind = "text") =>
    /\ \A v \in JsonValues :
         last.response.text \in {Serialize(v), Fenced(Serialize(v))}
           => last.analysis = v
    /\ (\A v \in JsonValues :
          last.response.text \notin {Serialize(v), Fenced(Serialize(v))})
         => last.analysis = create_enhanced_fallback_analysis(LastRecord)

\* json.load of a JSON number or string
FromJson(v) == IF v.type = "number" THEN v.num ELSE v.text

\* json.load of one element of "students"
JsonToReport(j) ==
  [k \in DOMAIN j.secs |->
     IF k = "analysis" THEN j.secs[k] ELSE FromJson(j.secs[k])]

\* the students sequence of the archive file, re-parsed
ArchiveStudents ==
  [k \in 1..Len(archive.secs.students.items) |->
     JsonToReport(archive.secs.students.items[k])]

RunStep ==
  \/ IterRaises
  \/ RecordRaises
  \/ IssueCall
  \/ CallReturns
  \/ NoReports
  \/ StartCharts
  \/ CreateStudentVisualization
  \/ CreateClassDashboard
  \/ GeneratePdf
  \/ SaveArchive

\* C18: generate_complete_report always gets to return a list, the empty
\* list when no student produced a report or a step failed, and on the empty
\* list the web handler sends no archive but flashes an error and redirects.
C18_NeverRaises ==
  /\ pc \in {"loop", "call", "charts", "dashboard", "pdf", "archive"}
       => ENABLED RunStep
  /\ pc \in {"done", "responded"} =>
       /\ result.returned
       /\ (reports = <<>> \/ json_filename = NoFile) => result.files = <<>>
  /\ pc = "responded" =>
       /\ http.status \in {"zip", "redirect"}
       /\ result.files = <<>> =>
            /\ http.status = "redirect"
            /\ http.entries = <<>>
            /\ http.flash # ""

C18_Witness ==
  /\ pc = "responded"
  /\ reports # <<>>
  /\ class_chart # NoFile
  /\ pdf_filename = NoFile
  /\ result = Returned(<<>>)
  /\ http.status = "redirect"

\* the run ended while rendering the charts: step 1 was over with reports,
\* and a chart is missing
ChartFailed ==
  /\ pc \in {"done", "responded"}
  /\ Iterable(student_data)
  /\ idx > Len(student_data.items)
  /\ reports # <<>>
  /\ Len(individual_charts) < Len(reports)

\* C19: when one student's chart fails to render, the run still returns the
\* document, the dashboard, the archive and the charts of the other students.
C19_ChartFailureIsolated ==
  ChartFailed =>
    /\ Len(result.files) = Len(reports) + 2
    /\ \E k \in 1..Len(result.files) : result.files[k].kind = "pdf"
    /\ \E k \in 1..Len(result.files) : result.files[k].kind = "class_chart"
    /\ \E k \in 1..Len(result.files) : result.files[k].kind = "json"

\* the sections a chart panel shows
PanelSections(panel) ==
  CASE panel = "Academic Performance Profile" -> {"academic_performance"}
    [] panel = "Student Profile" -> {"student_profile"}
    [] panel = "Multi-Grade Classroom Fit" -> {"multi_grade_considerations"}
    [] panel = "Learning Profile Overview" ->
         {"detailed_strengths", "detailed_challenges",
          "sahayak_interventions"}
    [] panel = "Implementation Plan" -> {"personalized_summary"}
    [] panel = "Success Timeline" -> {"personalized_summary"}

AllPanels ==
  {"Academic Performance Profile", "Student Profile",
   "Multi-Grade Classroom Fit", "Learning Profile Overview",
   "Implementation Plan", "Success Timeline"}

\* the section a document subsection shows
SubsectionSections(sub) ==
  CASE sub = "Immediate Actions" -> {"personalized_summary"}
    [] sub = "Key Strengths" -> {"detailed_strengths"}
    [] sub = "Immediate Action Items" -> {"sahayak_interventions"}
    [] sub = "This Week Implementation" -> {"personalized_summary"}

AllSubsections ==
  {"Immediate Actions", "Key Strengths", "Immediate Action Items",
   "This Week Implementation"}

\* C20: whatever sections an analysis lacks, the chart and the document part
\* are produced, and a panel or subsection all of whose sections are absent
\* is omitted.
C20_AbsentSectionsOmitted ==
  /\ rn_panels # <<>> =>
       \A p \in AllPanels :
         PanelSections(p) \cap DOMAIN rn_analysis.secs = {}
           => p \notin rn_panels[1]
  /\ rn_sections # <<>> =>
       \A sub \in AllSubsections :
         SubsectionSections(sub) \cap DOMAIN rn_analysis.secs = {}
           => sub \notin rn_sections[1]

\* ------------------------------------------------------------- C21
\* the document has been assembled
Assembled == pdf_filename # NoFile

\* C21: in the assembled document the per-student sections follow the order
\* of the report sequence, which is the order of the input records (nothing
\* is resorted by name, grade or score), and the chart embedded in the i-th
\* section is the chart rendered from the i-th report.
C21_SectionsInReportOrder ==
  Assembled =>
    /\ Len(story) = Len(reports)
    /\ \A i \in 1..Len(reports) :
         /\ story[i].student_name = reports[i].student_name
         /\ story[i].grade = reports[i].grade
         /\ story[i].subject = reports[i].subject
         /\ story[i].image = reports[i]
    /\ \A i, j \in 1..Len(reports) :
         i < j => reports[i].student_id < reports[j].student_id

\* a document of two sections whose names and grades are in descending
\* order, each with its own chart
C21_Witness ==
  /\ Assembled
  /\ Len(story) = 2
  /\ story[1].student_name = "B" /\ story[1].grade = "Class 5"
  /\ story[2].student_name = "A" /\ story[2].grade = "Class 4"
  /\ story[1].image = reports[1]
  /\ story[2].image = reports[2]
  /\ reports[1] # reports[2]

\* ------------------------------------------------------------- C22
\* the report made of the record at position i, whatever its analysis and
\* analysis date
ReportOfRecord(r, i) ==
  /\ i \in 1..Len(student_data.items)
  /\ r.student_id = i
  /\ r.student_name = student_data.items[i].name
  /\ r.grade = student_data.items[i].grade
  /\ r.subject = student_data.items[i].subject
  /\ r.exam_date = student_data.items[i].exam_date
  /\ r.original_remark = student_data.items[i].remark

\* C22: every report's student_id is the 1-based position of its record in
\* the input sequence; the reports of two records, of the same name or not,
\* are two reports with different student_id values and two chart files of
\* different names, each still showing its own report: no record is merged
\* with or overwrites another.
C22_PositionIsIdentity ==
  /\ \A k \in 1..Len(reports) : ReportOfRecord(reports[k], reports[k].student_id)
  /\ \A j, k \in 1..Len(reports) :
       j # k => reports[j].student_id # reports[k].student_id
  /\ Len(individual_charts) <= Len(reports)
  /\ \A j, k \in 1..Len(individual_charts) :
       j # k => individual_charts[j] # individual_charts[k]
  /\ \A k \in 1..Len(individual_charts) :
       individual_charts[k] \in temp_dir =>
         [file |-> individual_charts[k], shows |-> reports[k]]
           \in chart_content

\* the same record twice: two reports and two chart files on disk
C22_Witness ==
  /\ Len(student_data.items) = 2
  /\ student_data.items[1] = student_data.items[2]
  /\ Len(reports) = 2
  /\ reports[1].student_id = 1 /\ reports[2].student_id = 2
  /\ Len(individual_charts) = 2
  /\ individual_charts[1] # individual_charts[2]
  /\ { individual_charts[1], individual_charts[2] } \subseteq temp_dir

\* ------------------------------------------------------------- C23
\* the run has returned its bundle
Delivered == result.returned /\ result.files # <<>>

\* C23: the document, the archive file, the class dashboard image and every
\* student image of one run carry the same timestamp suffix in their file
\* names, however much time passes between the steps of the run.
C23_SharedTimestamp ==
  Delivered =>
    \E t \in 0..MaxClock :
      \A k \in 1..Len(result.files) : result.files[k].stamp = t

\* ------------------------------------------------------------- C24
\* C24: two report runs executing concurrently share no file: each run works
\* in a directory of its own, and each run analyses exactly the records its
\* request uploaded, never those of the other request and never the demo
\* corpus, also when both requests upload a file of the same name.
C24_RunsShareNoFile ==
  \A q \in Requests :
    /\ rq[q].student_data # NotLoaded =>
         rq[q].student_data = rq[q].upload.content
    /\ \A p \in Requests \ {q} :
         rq[q].temp_dir # 0 => rq[q].temp_dir # rq[p].temp_dir

\* ------------------------------------------------------------- C25
\* C25: after a report request has ended, whether its bundle was delivered
\* or discarded (empty result or error), no artifact file produced by the
\* run remains on disk.
C25_NothingLeftOnDisk == pc = "responded" => temp_dir = {}

\* ------------------------------------------------------------- C26
\* generate_class_strategic_insights has returned
Emitted == ins_pc \in {"recommend", "done"}

\* the report has a challenge whose severity is exactly "High"
HasHighChallenge(r) ==
  /\ HasKey(r.analysis.secs, "detailed_challenges")
  /\ \E k \in 1..Len(r.analysis.secs.detailed_challenges) :
       LET challenge == r.analysis.secs.detailed_challenges[k]
       IN HasKey(challenge, "severity") /\ challenge.severity = "High"

\* the names of the students of a subject that have such a challenge
HighNames(subject) ==
  { ins_reports[k].student_name :
      k \in { j \in 1..Len(ins_reports) :
                /\ ins_reports[j].subject = subject
                /\ HasHighChallenge(ins_reports[j]) } }

\* the positions of the URGENT headers of a subject
UrgentHeaders(subject) ==
  { i \in 1..Len(insights) :
      insights[i] = Line("URGENT INTERVENTIONS", <<subject>>, <<>>) }

\* C26: generate_class_strategic_insights emits an URGENT intervention
\* section for a subject iff some challenge of a student of that subject has
\* severity exactly "High" (one section per such subject), and the students
\* the section names are exactly those with a High-severity challenge in
\* that subject; a challenge of severity Medium, Low or without severity
\* causes no section and no name.
C26_UrgentIffHigh ==
  Emitted =>
    /\ \A r \in ClassRecords :
         Cardinality(UrgentHeaders(r.subject)) =
           IF HighNames(r.subject) # {} THEN 1 ELSE 0
    /\ \A i \in 1..Len(insights) :
         insights[i].kind = "URGENT INTERVENTIONS" =>
           /\ insights[i + 1].kind = "STUDENTS NEEDING IMMEDIATE HELP"
           /\ Range(insights[i + 1].names) = HighNames(insights[i].args[1])

\* Mathematics has a student with High and Low challenges and one without
\* severity, and a student with a Medium challenge; English has only a
\* student with a Medium challenge
C26_Witness ==
  /\ Emitted
  /\ Len(ins_reports) = 3
  /\ ins_reports[1].student_name = "B"
  /\ ins_reports[1].analysis = LowAnalysis
  /\ ins_reports[2].student_name = "A"
  /\ ins_reports[2].analysis.secs.detailed_challenges[1].severity = "Medium"
  /\ ins_reports[3].student_name = "C"
  /\ ins_reports[3].analysis.secs.detailed_challenges[1].severity = "Medium"
  /\ UrgentHeaders("Mathematics") # {}
  /\ UrgentHeaders("English") = {}
  /\ \E i \in 1..Len(insights) :
       /\ insights[i].kind = "STUDENTS NEEDING IMMEDIATE HELP"
       /\ Range(insights[i].names) = {"B"}

\* ------------------------------------------------------------- C27
RECURSIVE FirstOccurrences(_)
\* the distinct elements of a sequence, in order of first occurrence
FirstOccurrences(seq) ==
  IF seq = <<>> THEN <<>>
  ELSE LET before == FirstOccurrences(SubSeq(seq, 1, Len(seq) - 1))
       IN IF seq[Len(seq)] \in Range(before) THEN before
          ELSE Append(before, seq[Len(seq)])

RECURSIVE Flatten(_)
Flatten(seqs) == IF seqs = <<>> THEN <<>> ELSE Head(seqs) \o Flatten(Tail(seqs))

\* the reports rs grouped by KeyOf: the groups in order of first
\* occurrence, each with ValsOf of its reports in input order
GroupedBy(rs, KeyOf(_), ValsOf(_)) ==
  LET keys == FirstOccurrences([k \in 1..Len(rs) |-> KeyOf(rs[k])])
  IN [i \in 1..Len(keys) |->
        [key |-> keys[i],
         vals |->
           LET members == SelectSeq(rs, LAMBDA r : KeyOf(r) = keys[i])
           IN Flatten([k \in 1..Len(members) |-> ValsOf(members[k])])]]

NameOf(r) == << r.student_name >>
GradeOf(r) == r.grade
SubjectOf(r) == r.subject

HasProfile(r) == HasKey(r.analysis.secs, "student_profile")

AttentionOf(r) ==
  IF HasKey(r.analysis.secs.student_profile, "attention_span")
  THEN r.analysis.secs.student_profile.attention_span
  ELSE "Medium"

NeedsAttention(r) ==
  /\ HasKey(r.analysis.secs, "multi_grade_considerations")
  /\ HasKey(r.analysis.secs.multi_grade_considerations,
            "requires_individualized_attention")
  /\ r.analysis.secs.multi_grade_considerations
       .requires_individualized_attention

HasChallenges(r) ==
  /\ HasKey(r.analysis.secs, "detailed_challenges")
  /\ r.analysis.secs.detailed_challenges # <<>>

\* the issues of one report, one per challenge, in the order of the
\* challenges
IssuesOf(r) ==
  LET challenges == r.analysis.secs.detailed_challenges
  IN [k \in 1..Len(challenges) |->
        [student |-> r.student_name,
         issue |-> IF HasKey(challenges[k], "challenge")
                   THEN challenges[k].challenge ELSE "Unknown issue",
         severity |-> IF HasKey(challenges[k], "severity")
                      THEN challenges[k].severity ELSE "Medium"]]

\* C27: at every point of the scan every scanned student is in exactly one
\* grade group, the grade groups stand in order of first occurrence, and in
\* every bucket (grade group, high, urgent, peer helpers, individual
\* attention, attention span, issues of a subject) the entries stand in
\* input order; the insight list returned is the one these buckets
\* determine, so it depends on the report sequence alone.
C27_InputOrder ==
  /\ grade_distribution = GroupedBy(Scanned, GradeOf, NameOf)
  /\ Len(Flatten([k \in 1..Len(grade_distribution) |->
                    grade_distribution[k].vals])) = Len(Scanned)
  /\ high_performers =
       NamesOf(SelectSeq(Scanned,
                         LAMBDA r : HasScores(r) /\ MeanAtLeast(r, 75)))
  /\ need_urgent_support =
       NamesOf(SelectSeq(Scanned,
                         LAMBDA r : HasScores(r) /\ MeanBelow(r, 55)))
  /\ peer_helpers = NamesOf(SelectSeq(Scanned, CanHelp))
  /\ individual_attention_students =
       NamesOf(SelectSeq(Scanned, NeedsAttention))
  /\ attention_span_data =
       GroupedBy(SelectSeq(Scanned, HasProfile), AttentionOf, NameOf)
  /\ subject_specific_issues =
       GroupedBy(SelectSeq(Scanned, HasChallenges), SubjectOf, IssuesOf)
  /\ Emitted =>
       insights =
         generate_class_strategic_insights(
           Len(ins_reports),
           GroupedBy(ins_reports, GradeOf, NameOf),
           GroupedBy(SelectSeq(ins_reports, HasChallenges), SubjectOf,
                     IssuesOf),
           GroupedBy(SelectSeq(ins_reports, HasProfile), AttentionOf, NameOf),
           NamesOf(SelectSeq(ins_reports, CanHelp)),
           NamesOf(SelectSeq(ins_reports,
                             LAMBDA r : HasScores(r) /\ MeanBelow(r, 55))),
           NamesOf(SelectSeq(ins_reports, NeedsAttention)))

\* a class given as C (Class 5), B, A (Class 4), all needing individual
\* attention: neither the groups nor the names are sorted
C27_Witness ==
  /\ Emitted
  /\ NamesOf(ins_reports) = << "C", "B", "A" >>
  /\ grade_distribution =
       << [key |-> "Class 5", vals |-> << "C" >>],
          [key |-> "Class 4", vals |-> << "B", "A" >>] >>
  /\ individual_attention_students = << "C", "B", "A" >>
  /\ \E i \in 1..Len(insights) :
       insights[i] = Line("GRADE", << "Class 4", 2 >>, << "B", "A" >>)
  /\ \E i \in 1..Len(insights) :
       insights[i] = Line("10:15-10:30 AM", <<>>, << "C", "B", "A" >>)

\* ------------------------------------------------------------- C28
\* every student's assessment is the fallback
AllFallback ==
  \A k \in 1..Len(ins_reports) :
    ins_reports[k].analysis =
      FallbackTemplate(ins_reports[k].grade, ins_reports[k].student_name)

\* the peer-tutoring, URGENT subject and attention-span sections
SectionKinds ==
  { "PEER TUTORING SYSTEM", "TUTORS AVAILABLE", "STUDENTS NEEDING HELP",
    "PAIR", "URGENT INTERVENTIONS", "STUDENTS NEEDING IMMEDIATE HELP",
    "ACTION", "LOCATION", "ATTENTION SPAN MANAGEMENT", "SHORT ATTENTION",
    "STRATEGY" }

\* the lines of a kind, in order
LinesOf(lines, kind) == SelectSeq(lines, LAMBDA l : l.kind = kind)

\* C28: when every student's assessment is the fallback, no student is in
\* the high or the urgent band, the insights hold no peer-tutoring section,
\* no URGENT subject section and no attention-span section, and every
\* student needs individual attention: the class-size line reports N
\* support stations for N students, the 10:15 slot names the first three
\* and the 2:45 slot, present when N > 3, the rest.
C28_AllFallbackClass ==
  (Emitted /\ AllFallback) =>
    LET N == Len(ins_reports)
        names == NamesOf(ins_reports)
    IN /\ high_performers = <<>>
       /\ need_urgent_support = <<>>
       /\ KindsOf(insights) \cap SectionKinds = {}
       /\ individual_attention_students = names
       /\ LinesOf(insights, "TOTAL CLASS SIZE") =
            << Line("TOTAL CLASS SIZE", << N, N >>, <<>>) >>
       /\ LinesOf(insights, "10:15-10:30 AM") =
            << Line("10:15-10:30 AM", <<>>,
                    SubSeq(names, 1, IF N < 3 THEN N ELSE 3)) >>
       /\ LinesOf(insights, "2:45-3:00 PM") =
            IF N > 3
            THEN << Line("2:45-3:00 PM", <<>>, SubSeq(names, 4, N)) >>
            ELSE <<>>

\* a class of four, all on the fallback: three in the first slot, the
\* fourth in the second
C28_Witness ==
  /\ Emitted
  /\ AllFallback
  /\ NamesOf(ins_reports) = << "B", "C", "A", "B" >>
  /\ LinesOf(insights, "10:15-10:30 AM") =
       << Line("10:15-10:30 AM", <<>>, << "B", "C", "A" >>) >>
  /\ LinesOf(insights, "2:45-3:00 PM") =
       << Line("2:45-3:00 PM", <<>>, << "B" >>) >>
====
